---- MODULE Spec2Model ----
(***************************************************************************)
(* A model of app.py, the resume analyzer: the keyword scorer, the         *)
(* markdown-fence stripping applied to every model reply, the facet        *)
(* functions around the generative-model gateway, and the script's main    *)
(* analysis flow.                                                          *)
(*                                                                         *)
(* Texts are sequences of one-character strings.  A percentage is held in  *)
(* hundredths of a percent, so that round(x, 2) is an integer: 40.0 is     *)
(* 4000 and 33.33 is 3333.                                                 *)
(***************************************************************************)
EXTENDS Integers, Sequences, FiniteSets, TLC

VARIABLES
    pc,               \* position of the script / of the function under check
    resume_text,      \* app.py:682, the text extracted from the upload
    job_description,  \* app.py:669, the text area's content
    ats,              \* app.py:698, what calculate_ats_score returned
    \* a function called on its own
    raw_reply,        \* response.text of one gateway reply
    response_text,    \* app.py:148-154, the reply after the fence stripping
    facet,            \* the facet function called on its own
    gateway,          \* what the gateway does with that call's request
    returned,         \* what the call returned, sent, showed and printed
    detailed_scores,  \* what a call of calculate_detailed_scores returned
    job_matching,     \* what a call of analyze_job_matching returned
    \* one run of the script, app.py:671-1117
    pdf,              \* what pdfplumber makes of the uploaded bytes
    button,           \* app.py:688, whether "Analyze Resume" was pressed
    temp_file,        \* whether uploaded_resume.pdf exists
    resume_data,      \* app.py:693
    analysis,         \* app.py:697
    candidate_summary,\* app.py:722
    ai_enhancements,  \* app.py:801
    layout_analysis,  \* app.py:893, 1033
    calls,            \* the functions the run has called, in order
    requests,         \* the functions whose request reached the gateway
    errors,           \* the st.error messages the run has shown
    \* several sessions of the script in one working directory
    sessions,         \* each session's position, upload, extracted text and errors
    disk_file         \* the files created as uploaded_resume.pdf, each with the bytes
                      \* it holds, and the one that has the name now (0: none)

callVars == <<raw_reply, response_text, facet, gateway, returned, detailed_scores,
              job_matching>>
runVars == <<pdf, button, temp_file, resume_data, analysis, candidate_summary,
             ai_enhancements, layout_analysis, calls, requests, errors>>
sessionVars == <<sessions, disk_file>>
vars == <<pc, resume_text, job_description, ats, callVars, runVars, sessionVars>>

-----------------------------------------------------------------------------
(* Bounds of the model *)

MaxResumeWords == 2
MaxJdWords == 3
MaxReplyPieces == 4

-----------------------------------------------------------------------------
(* Texts: str.lower, str.split, str.strip *)

Range(s) == {s[i] : i \in 1..Len(s)}

UpperChars == <<"A", "B", "C", "D", "E", "F", "G", "H", "I", "J", "K", "L", "M",
                "N", "O", "P", "Q", "R", "S", "T", "U", "V", "W", "X", "Y", "Z">>
LowerChars == <<"a", "b", "c", "d", "e", "f", "g", "h", "i", "j", "k", "l", "m",
                "n", "o", "p", "q", "r", "s", "t", "u", "v", "w", "x", "y", "z">>

\* the whitespace characters the texts of the model contain
Whitespace == {" ", "\n"}

LowerChar(c) ==
    IF \E i \in 1..Len(UpperChars) : UpperChars[i] = c
    THEN LowerChars[CHOOSE i \in 1..Len(UpperChars) : UpperChars[i] = c]
    ELSE c

\* word.lower()
lower(word) == [i \in 1..Len(word) |-> LowerChar(word[i])]

\* text.split(): the maximal runs of non-whitespace characters, in order
RECURSIVE SplitFrom(_, _, _)
SplitFrom(text, i, word) ==
    IF i > Len(text)
    THEN IF word = <<>> THEN <<>> ELSE <<word>>
    ELSE IF text[i] \in Whitespace
         THEN IF word = <<>>
              THEN SplitFrom(text, i + 1, <<>>)
              ELSE <<word>> \o SplitFrom(text, i + 1, <<>>)
         ELSE SplitFrom(text, i + 1, Append(word, text[i]))

split(text) == SplitFrom(text, 1, <<>>)

\* text.strip()
RECURSIVE lstrip(_)
lstrip(text) ==
    IF text # <<>> /\ Head(text) \in Whitespace THEN lstrip(Tail(text)) ELSE text

RECURSIVE rstrip(_)
rstrip(text) ==
    IF text # <<>> /\ text[Len(text)] \in Whitespace
    THEN rstrip(SubSeq(text, 1, Len(text) - 1))
    ELSE text

strip(text) == rstrip(lstrip(text))

-----------------------------------------------------------------------------
(* calculate_ats_score, app.py:44-58 *)

\* Python's float is the IEEE 754 double: a whole number of at most 53 bits
\* times a power of two, and every operation gives the double nearest to its
\* exact result, a tie going to the even one.  The whole numbers here pass
\* the range of the integers, so they are held as sequences of limbs of 14
\* bits, the lowest first.
\* The arithmetic is written as functions, whose arguments are values.
LimbBits == 14
MantissaBits == 53
\* the limbs long division hands out after the point
QuotientLimbs == 6

Pow2[k \in Nat] == IF k = 0 THEN 1 ELSE 2 * Pow2[k - 1]

Base == Pow2[LimbBits]

\* the whole numbers, as limbs
Big == Seq(Nat)

BigOf[n \in Nat] == IF n = 0 THEN <<>> ELSE <<n % Base>> \o BigOf[n \div Base]

IntOf[a \in Big] == IF a = <<>> THEN 0 ELSE Head(a) + Base * IntOf[Tail(a)]

\* a without its high limbs that are zero
Trim[a \in Big] ==
    IF a # <<>> /\ a[Len(a)] = 0 THEN Trim[SubSeq(a, 1, Len(a) - 1)] ELSE a

BigAdd[a \in Big, b \in Big, carry \in Nat] ==
    IF a = <<>> /\ b = <<>> THEN (IF carry = 0 THEN <<>> ELSE <<carry>>)
    ELSE LET x == (IF a = <<>> THEN 0 ELSE Head(a)) + (IF b = <<>> THEN 0 ELSE Head(b))
                     + carry
         IN  <<x % Base>> \o BigAdd[IF a = <<>> THEN <<>> ELSE Tail(a),
                                    IF b = <<>> THEN <<>> ELSE Tail(b), x \div Base]

BigTimesLimb[a \in Big, d \in Nat, carry \in Nat] ==
    IF a = <<>> THEN (IF carry = 0 THEN <<>> ELSE <<carry>>)
    ELSE LET x == Head(a) * d + carry
         IN  <<x % Base>> \o BigTimesLimb[Tail(a), d, x \div Base]

BigMul[a \in Big, b \in Big] ==
    IF a = <<>> \/ b = <<>> THEN <<>>
    ELSE BigAdd[BigTimesLimb[b, Head(a), 0], <<0>> \o BigMul[Tail(a), b], 0]

BitsOfLimb[x \in Nat] == IF x = 0 THEN 0 ELSE 1 + BitsOfLimb[x \div 2]

\* the number of bits of a
BitLength[a \in Big] ==
    LET t == Trim[a]
    IN  IF t = <<>> THEN 0 ELSE LimbBits * (Len(t) - 1) + BitsOfLimb[t[Len(t)]]

\* bit i of a, the lowest being bit 0
Bit[a \in Big, i \in Nat] ==
    IF i \div LimbBits + 1 > Len(a) THEN 0
    ELSE (a[i \div LimbBits + 1] \div Pow2[i % LimbBits]) % 2

\* a * 2^t
ShiftLeft[a \in Big, t \in Nat] ==
    BigMul[a, [i \in 1..(t \div LimbBits + 1) |->
                  IF i = t \div LimbBits + 1 THEN Pow2[t % LimbBits] ELSE 0]]

\* a / 2^d rounded down
ShiftRight[a \in Big, d \in Nat] ==
    LET w == d \div LimbBits
        s == d % LimbBits
        limb(i) == IF i <= Len(a) THEN a[i] ELSE 0
    IN  Trim[[i \in 1..(IF Len(a) > w THEN Len(a) - w ELSE 0) |->
                 limb(i + w) \div Pow2[s] + (limb(i + w + 1) % Pow2[s]) * Pow2[LimbBits - s]]]

\* a / 2^d rounded to the nearest whole number, a tie to the even one
RoundShift[a \in Big, d \in Nat] ==
    IF d = 0 THEN Trim[a]
    ELSE LET below == \E i \in 1..Len(a) :
                         \/ i <= (d - 1) \div LimbBits /\ a[i] # 0
                         \/ i = (d - 1) \div LimbBits + 1
                                /\ a[i] % Pow2[(d - 1) % LimbBits] # 0
             up == Bit[a, d - 1] = 1 /\ (below \/ Bit[a, d] = 1)
         IN  IF up THEN Trim[BigAdd[ShiftRight[a, d], <<1>>, 0]] ELSE ShiftRight[a, d]

\* a float: the number m * 2^e
Floats == [m : Big, e : Int]
FloatZero == [m |-> <<>>, e |-> 0]

\* the double nearest to x
Fl[x \in Floats] ==
    LET drop == BitLength[x.m] - MantissaBits
    IN  IF x.m = <<>> THEN FloatZero
        ELSE IF drop <= 0 THEN x
        ELSE [m |-> RoundShift[x.m, drop], e |-> x.e + drop]

\* float(n) of an int
FloatOf[n \in Nat] == [m |-> BigOf[n], e |-> 0]

\* the limbs of r / n after the point, the lowest first, and what is left over
LongDivision[r \in Nat, n \in Nat, k \in Nat] ==
    IF k = 0 THEN [limbs |-> <<>>, rest |-> r]
    ELSE LET further == LongDivision[(r * Base) % n, n, k - 1]
         IN  [limbs |-> Append(further.limbs, (r * Base) \div n), rest |-> further.rest]

\* a / b of two ints (b below 2^17): the double nearest to the quotient.
\* The quotient is cut after QuotientLimbs limbs and a last bit tells
\* whether anything was cut off, which is all the rounding asks for.
FloatDiv[a \in Nat, b \in Nat] ==
    LET division == LongDivision[a % b, b, QuotientLimbs]
        quotient == division.limbs \o BigOf[a \div b]
        marked == BigAdd[BigTimesLimb[quotient, 2, 0],
                         IF division.rest # 0 THEN <<1>> ELSE <<>>, 0]
    IN  Fl[[m |-> Trim[marked], e |-> -(LimbBits * QuotientLimbs + 1)]]

\* x * y and x + y of two floats
FloatMul[x \in Floats, y \in Floats] == Fl[[m |-> Trim[BigMul[x.m, y.m]], e |-> x.e + y.e]]

FloatAdd[x \in Floats, y \in Floats] ==
    LET e == IF x.e < y.e THEN x.e ELSE y.e
    IN  Fl[[m |-> Trim[BigAdd[ShiftLeft[x.m, x.e - e], ShiftLeft[y.m, y.e - e], 0]],
            e |-> e]]

\* round(x, 2) in hundredths: the whole number of hundredths nearest to the
\* float's exact value, a tie to the even one
Round2[x \in Floats] ==
    LET hundredfold == BigMul[x.m, BigOf[100]]
    IN  IntOf[IF x.e >= 0 THEN ShiftLeft[hundredfold, x.e]
              ELSE RoundShift[hundredfold, -x.e]]

\* (count / total) * 100 of line 56
Percentage(count, total) == FloatMul[FloatDiv[count, total], FloatOf[100]]

\* the length filter off by one: len(word) >= 2
WordsOfAtLeast2(text) == {lower(w) : w \in {x \in Range(split(text)) : Len(x) >= 2}}

\* the same set with words of 3 characters left out too
WordsLongerThan3(text) == {lower(w) : w \in {x \in Range(split(text)) : Len(x) > 3}}

\* set(word.lower() for word in text.split() if len(word) > 2)
WordsLongerThan2(text) == {lower(w) : w \in {x \in Range(split(text)) : Len(x) > 2}}

\* the score taken as 100 where the job description has no word to look for
calculate_ats_score_FullWhenNoJdWords(rt, jd) ==
    IF rt = <<>> \/ jd = <<>>
    THEN [percentage |-> 0, matched_words |-> {}]
    ELSE LET resume_words == WordsLongerThan2(rt)
             jd_words == WordsLongerThan2(jd)
             matched_words == resume_words \cap jd_words
             score == IF jd_words # {}
                      THEN Round2[Percentage(Cardinality(matched_words), Cardinality(jd_words))]
                      ELSE 10000
         IN  [percentage |-> score, matched_words |-> matched_words]

\* the resume's words the job description lacks taken for the matched ones
calculate_ats_score_DifferenceForIntersection(rt, jd) ==
    IF rt = <<>> \/ jd = <<>>
    THEN [percentage |-> 0, matched_words |-> {}]
    ELSE LET resume_words == WordsLongerThan2(rt)
             jd_words == WordsLongerThan2(jd)
             matched_words == resume_words \ jd_words
             score == IF jd_words # {}
                      THEN Round2[Percentage(Cardinality(matched_words), Cardinality(jd_words))]
                      ELSE 0
         IN  [percentage |-> score, matched_words |-> matched_words]

calculate_ats_score(rt, jd) ==
    IF rt = <<>> \/ jd = <<>>
    THEN [percentage |-> 0, matched_words |-> {}]
    ELSE LET resume_words == WordsLongerThan2(rt)
             jd_words == WordsLongerThan2(jd)
             matched_words == resume_words \cap jd_words
             score == IF jd_words # {}
                      THEN Round2[Percentage(Cardinality(matched_words), Cardinality(jd_words))]
                      ELSE 0
         IN  [percentage |-> score, matched_words |-> matched_words]

-----------------------------------------------------------------------------
(* The fence stripping every JSON facet applies to a reply,                *)
(* app.py:148-154, 348-352, 418-422, 486-490, 567-571                      *)

\* the backtick character (a TLA+ string cannot hold one; "@" stands for it)
Backtick == "@"

FenceJson == <<Backtick, Backtick, Backtick, "j", "s", "o", "n">>
Fence == <<Backtick, Backtick, Backtick>>

MatchAt(s, sep, i) ==
    /\ i + Len(sep) - 1 <= Len(s)
    /\ SubSeq(s, i, i + Len(sep) - 1) = sep

\* s.find(sep) counted from 1; 0 when sep does not occur
Find(s, sep) ==
    IF \E i \in 1..Len(s) : MatchAt(s, sep, i)
    THEN CHOOSE i \in 1..Len(s) :
            /\ MatchAt(s, sep, i)
            /\ \A k \in 1..(i - 1) : ~MatchAt(s, sep, k)
    ELSE 0

\* sep in s
Contains(s, sep) == Find(s, sep) # 0

\* s.split(sep): the pieces between the occurrences of sep, found left to
\* right without overlap
RECURSIVE SplitOn(_, _)
SplitOn(s, sep) ==
    LET i == Find(s, sep)
    IN  IF i = 0 THEN <<s>>
        ELSE <<SubSeq(s, 1, i - 1)>> \o SplitOn(SubSeq(s, i + Len(sep), Len(s)), sep)

\* the clean-up without the strip() that ends each branch
StripFences_WithoutFinalStrip(text) ==
    LET stripped == strip(text)
    IN  IF Contains(stripped, FenceJson)
        THEN SplitOn(SplitOn(stripped, FenceJson)[2], Fence)[1]
        ELSE IF Contains(stripped, Fence)
             THEN SplitOn(SplitOn(stripped, Fence)[2], Fence)[1]
             ELSE stripped

\* response.text.strip(), then the if/elif of the clean-up
StripFences(text) ==
    LET stripped == strip(text)
    IN  IF Contains(stripped, FenceJson)
        THEN strip(SplitOn(SplitOn(stripped, FenceJson)[2], Fence)[1])
        ELSE IF Contains(stripped, Fence)
             THEN strip(SplitOn(SplitOn(stripped, Fence)[2], Fence)[1])
             ELSE stripped

-----------------------------------------------------------------------------
(* Python values.  Every value is a record of the same four fields, so     *)
(* that any two can be compared: t is the type, s the text of a str (or    *)
(* the numeral of a number), l the items of a list, o the items of a dict. *)
(* In a text a word, a schema key or a whole JSON document may stand as    *)
(* one symbol.                                                             *)

PyNone == [t |-> "None", s |-> <<>>, l |-> <<>>, o |-> <<>>]
PyStr(text) == [t |-> "str", s |-> text, l |-> <<>>, o |-> <<>>]
PyNum(numeral) == [t |-> "num", s |-> <<numeral>>, l |-> <<>>, o |-> <<>>]
PyList(items) == [t |-> "list", s |-> <<>>, l |-> items, o |-> <<>>]
PyDict(items) == [t |-> "dict", s |-> <<>>, l |-> <<>>, o |-> items]

\* bool(v), as the script's "if analysis:" and "if candidate_summary:" take it
Truthy(v) ==
    CASE v.t = "None" -> FALSE
      [] v.t = "str" -> v.s # <<>>
      [] v.t = "num" -> v.s # <<"0">>
      [] v.t = "list" -> v.l # <<>>
      [] v.t = "dict" -> DOMAIN v.o # {}

\* the outcome of evaluating an expression: a value, or an exception raised
Ok(v) == [exc |-> "", val |-> v]
Raise(e) == [exc |-> e, val |-> PyNone]

\* key in v
PyContains(v, key) ==
    CASE v.t = "dict" -> Ok(key \in DOMAIN v.o)
      [] v.t = "list" -> Ok(\E i \in 1..Len(v.l) : v.l[i] = PyStr(<<key>>))
      [] v.t = "str" -> Ok(Contains(v.s, <<key>>))
      [] OTHER -> Raise("TypeError")

\* v[key] = item
PySetItem(v, key, item) ==
    IF v.t = "dict"
    THEN Ok(PyDict([k \in DOMAIN v.o \cup {key} |-> IF k = key THEN item ELSE v.o[k]]))
    ELSE Raise("TypeError")

\* v[key]
PyGetItem(v, key) ==
    IF v.t = "dict"
    THEN IF key \in DOMAIN v.o THEN Ok(v.o[key]) ELSE Raise("KeyError")
    ELSE Raise("TypeError")

\* for key in defaults: if key not in parsed: parsed[key] = defaults[key]
\* (app.py:160-162, 433-435, 504-506, 590-592); keys is the order of the loop
RECURSIVE FillMissing(_, _, _)
FillMissing(parsed, keys, defaults) ==
    IF keys = <<>> THEN Ok(parsed)
    ELSE LET key == Head(keys)
             present == PyContains(parsed, key)
         IN  IF present.exc # "" THEN present
             ELSE IF present.val THEN FillMissing(parsed, Tail(keys), defaults)
             ELSE LET filled == PySetItem(parsed, key, defaults[key])
                  IN  IF filled.exc # "" THEN filled
                      ELSE FillMissing(filled.val, Tail(keys), defaults)

-----------------------------------------------------------------------------
(* The schemas' defaults *)

EmptyList == PyList(<<>>)
EmptyStr == PyStr(<<>>)

\* app.py:98-109
default_data ==
    PyDict([personal_info |-> PyDict([name |-> EmptyStr, email |-> EmptyStr,
                                      phone |-> EmptyStr, location |-> EmptyStr]),
            skills |-> EmptyList,
            education |-> EmptyList,
            experience |-> EmptyList,
            certifications |-> EmptyList])
default_data_keys == <<"personal_info", "skills", "education", "experience", "certifications">>
personal_info_keys == <<"name", "email", "phone", "location">>

\* app.py:428-432
layout_required_fields ==
    PyDict([layout_analysis |-> PyDict([strengths |-> EmptyList, weaknesses |-> EmptyList]),
            formatting_issues |-> EmptyList,
            design_recommendations |-> EmptyList])
layout_keys == <<"layout_analysis", "formatting_issues", "design_recommendations">>

\* app.py:496-503
summary_required_fields ==
    PyDict([professional_summary |-> EmptyStr,
            key_qualifications |-> EmptyList,
            core_skills |-> EmptyList,
            major_achievements |-> EmptyList,
            experience_level |-> EmptyStr,
            career_focus |-> EmptyStr])
summary_keys == <<"professional_summary", "key_qualifications", "core_skills",
                  "major_achievements", "experience_level", "career_focus">>

\* app.py:577-589
enhancements_required_fields ==
    PyDict([domain_analysis |-> PyDict([primary_domain |-> EmptyStr,
                                        technical_depth |-> EmptyStr,
                                        specialized_terminology |-> EmptyList]),
            enhancement_opportunities |-> EmptyList,
            fine_tuning_recommendations |-> PyDict([dataset_suggestions |-> EmptyList,
                                                    model_improvements |-> EmptyList,
                                                    context_enhancements |-> EmptyList])])
enhancements_keys == <<"domain_analysis", "enhancement_opportunities",
                       "fine_tuning_recommendations">>

-----------------------------------------------------------------------------
(* json.loads.  A JSON document is one symbol of a text; JsonDocs gives    *)
(* the value each document decodes to.  Any other text does not decode.    *)

X == PyStr(<<"x">>)
Ann == PyStr(<<"A", "n", "n">>)

FullExtraction ==
    PyDict([personal_info |-> PyDict([name |-> Ann, email |-> X, phone |-> X, location |-> X]),
            skills |-> PyList(<<X>>),
            education |-> EmptyList,
            experience |-> PyList(<<PyDict([title |-> X])>>),
            certifications |-> EmptyList])

FullLayout ==
    PyDict([layout_analysis |-> PyDict([strengths |-> PyList(<<X>>), weaknesses |-> EmptyList]),
            formatting_issues |-> PyList(<<PyDict([issue |-> X, severity |-> X, fix |-> X])>>),
            design_recommendations |-> EmptyList])

FullSummary ==
    PyDict([professional_summary |-> X,
            key_qualifications |-> PyList(<<X>>),
            core_skills |-> PyList(<<X>>),
            major_achievements |-> EmptyList,
            experience_level |-> X,
            career_focus |-> X])

FullEnhancements ==
    PyDict([domain_analysis |-> PyDict([primary_domain |-> X, technical_depth |-> X,
                                        specialized_terminology |-> PyList(<<X>>)]),
            enhancement_opportunities |->
                PyList(<<PyDict([area |-> X, potential_impact |-> X, suggestion |-> X])>>),
            fine_tuning_recommendations |-> PyDict([dataset_suggestions |-> EmptyList,
                                                    model_improvements |-> EmptyList,
                                                    context_enhancements |-> EmptyList])])

FullSoftSkills ==
    PyDict([soft_skills |-> PyList(<<PyDict([skill |-> X, level |-> X, evidence |-> X])>>),
            writing_style |-> PyDict([formality |-> PyNum("7"), professionalism |-> PyNum("7"),
                                      action_orientation |-> PyNum("7"), clarity |-> PyNum("7")]),
            tone_assessment |-> PyDict([confidence_level |-> X,
                                        characteristics |-> EmptyList,
                                        improvements |-> EmptyList])])

JsonDocs ==
    [ null |-> PyNone,
      number |-> PyNum("3"),
      empty_list |-> EmptyList,
      string |-> X,
      empty_object |-> PyDict(<<>>),
      skills_only |-> PyDict([skills |-> PyList(<<X>>)]),
      name_only |-> PyDict([personal_info |-> PyDict([name |-> Ann])]),
      personal_info_null |-> PyDict([personal_info |-> PyNone]),
      full_extraction |-> FullExtraction,
      layout_key_list |-> PyList(<<PyStr(<<"layout_analysis">>), PyStr(<<"formatting_issues">>),
                                   PyStr(<<"design_recommendations">>)>>),
      layout_analysis_empty |-> PyDict([layout_analysis |-> PyDict(<<>>)]),
      full_layout |-> FullLayout,
      summary_only |-> PyDict([professional_summary |-> X]),
      qualifications_number |-> PyDict([key_qualifications |-> PyNum("3")]),
      full_summary |-> FullSummary,
      primary_domain_only |-> PyDict([domain_analysis |-> PyDict([primary_domain |-> X])]),
      full_enhancements |-> FullEnhancements,
      full_soft_skills |-> FullSoftSkills ]

\* json.loads(text)
json_loads(text) ==
    IF Len(text) = 1 /\ text[1] \in DOMAIN JsonDocs
    THEN Ok(JsonDocs[text[1]])
    ELSE Raise("JSONDecodeError")

-----------------------------------------------------------------------------
(* The prompt templates.  The wording of an instruction block is one       *)
(* symbol; braces, colons and field names are symbols of their own.        *)

\* app.py:66-76
base_prompt_head ==
    <<"As an experienced HR professional ... Resume:", "{", "resume_text", "}">>

\* app.py:78-86
base_prompt_jd ==
    <<"Job Description Comparison:", "{", "job_description", "}", "Additional Analysis: ...">>

\* app.py:116-134
extraction_prompt ==
    <<"Extract key information ... with these exact fields:",
      "{", "personal_info", ":", "{", "name", ":", "extracted name", "}",
           "skills", ":", "[", "skill1", "]", "}",
      "Resume text:", "{", "resume_text", "}">>

\* app.py:308-343
soft_skills_prompt ==
    <<"Analyze the following resume text for soft skills ... with these exact fields:",
      "{", "soft_skills", ":", "[", "{", "skill", ":", "skill name", "}", "]",
           "writing_style", ":", "{", "formality", ":", "number", "}", "}",
      "Resume text:", "{", "text", "}">>

\* app.py:372-410
layout_prompt ==
    <<"Analyze the resume's layout and formatting ... with these exact fields:",
      "{", "layout_analysis", ":", "{", "strengths", ":", "[", "strength1", "]", "}", "}">>

\* app.py:456-475
summary_prompt ==
    <<"Generate a professional candidate summary ... with these exact fields:",
      "{", "professional_summary", ":", "A concise 2-3 sentence overview", "}",
      "Keep the summary professional, concise, and impactful.">>

\* app.py:527-556
enhancements_prompt ==
    <<"Analyze the resume for potential AI/ML enhancements ... with these exact fields:",
      "{", "domain_analysis", ":", "{", "primary_domain", ":", "main industry/field", "}", "}",
      "Focus on practical, implementable improvements.">>

\* "\nJob Description:\n" + job_description, app.py:478, 559
JdSection(jd) == <<"\n", "Job Description:", "\n">> \o jd

\* f"Resume text:\n{resume_text}", app.py:414, 482, 563
ResumeSection(rt) == <<"Resume text:", "\n">> \o rt

\* template.format(**kwargs): a "{" opens a replacement field, whose name
\* is looked up in kwargs; a name that is not an argument raises KeyError
RECURSIVE format(_, _)
format(template, kwargs) ==
    IF template = <<>> THEN Ok(PyStr(<<>>))
    ELSE IF Head(template) = "{"
         THEN IF Len(template) >= 3 /\ template[2] \in DOMAIN kwargs /\ template[3] = "}"
              THEN LET rest == format(SubSeq(template, 4, Len(template)), kwargs)
                   IN  IF rest.exc # "" THEN rest
                       ELSE Ok(PyStr(kwargs[template[2]] \o rest.val.s))
              ELSE IF Len(template) >= 2 /\ template[2] \notin DOMAIN kwargs
                   THEN Raise("KeyError")
                   ELSE Raise("ValueError")
         ELSE IF Head(template) = "}" THEN Raise("ValueError")
         ELSE LET rest == format(Tail(template), kwargs)
              IN  IF rest.exc # "" THEN rest
                  ELSE Ok(PyStr(<<Head(template)>> \o rest.val.s))

-----------------------------------------------------------------------------
(* The facet functions.  gw is what the gateway does with the one request  *)
(* the function may send: gw.raises, or the reply's text gw.text.  Each    *)
(* function yields what it returns (ret), the requests it sent, the        *)
(* st.error messages it showed (errors) and the lines it printed (prints), *)
(* and the exception that left the function uncaught (escaped), if any.    *)

Returned(value, sent, shown, printed) ==
    [ret |-> value, requests |-> sent, errors |-> shown, prints |-> printed,
     escaped |-> ""]

\* the function is left by an exception no except clause of it caught
Propagated(exception, sent) ==
    [ret |-> PyNone, requests |-> sent, errors |-> <<>>, prints |-> <<>>,
     escaped |-> exception]

\* the comparison block added whether or not a job description was given
analyze_resume_AlwaysComparing(rt, jd, gw) ==
    IF rt = <<>>
    THEN Returned(PyDict([error |-> PyStr(<<"Resume text is required for analysis.">>)]),
                  <<>>, <<>>, <<>>)
    ELSE LET base_prompt == base_prompt_head \o base_prompt_jd
             prompt == format(base_prompt, [resume_text |-> rt, job_description |-> jd])
         IN  IF prompt.exc # ""
             THEN Returned(PyNone, <<>>, <<"Error in AI analysis">>, <<>>)
             ELSE IF gw.raises
                  THEN Returned(PyNone, <<prompt.val.s>>, <<"Error in AI analysis">>, <<>>)
                  ELSE Returned(PyStr(strip(gw.text)), <<prompt.val.s>>, <<>>, <<>>)

\* app.py:61-94
analyze_resume(rt, jd, gw) ==
    IF rt = <<>>
    THEN Returned(PyDict([error |-> PyStr(<<"Resume text is required for analysis.">>)]),
                  <<>>, <<>>, <<>>)
    ELSE LET base_prompt == IF jd # <<>> THEN base_prompt_head \o base_prompt_jd
                            ELSE base_prompt_head
             prompt == format(base_prompt, [resume_text |-> rt, job_description |-> jd])
         IN  IF prompt.exc # ""
             THEN Returned(PyNone, <<>>, <<"Error in AI analysis">>, <<>>)
             ELSE IF gw.raises
                  THEN Returned(PyNone, <<prompt.val.s>>, <<"Error in AI analysis">>, <<>>)
                  ELSE Returned(PyStr(strip(gw.text)), <<prompt.val.s>>, <<>>, <<>>)

\* app.py:164-167: for field in default_data["personal_info"]: if field not in
\* parsed_data.get("personal_info", {}): parsed_data.setdefault(...)[field] = ""
RECURSIVE FillPersonalInfo(_, _)
FillPersonalInfo(parsed_data, fields) ==
    IF fields = <<>> THEN Ok(parsed_data)
    ELSE IF parsed_data.t # "dict" THEN Raise("AttributeError")
    ELSE LET info == IF "personal_info" \in DOMAIN parsed_data.o
                     THEN parsed_data.o["personal_info"] ELSE PyDict(<<>>)
             present == PyContains(info, Head(fields))
         IN  IF present.exc # "" THEN present
             ELSE IF present.val THEN FillPersonalInfo(parsed_data, Tail(fields))
             ELSE LET filled == PySetItem(info, Head(fields), EmptyStr)
                  IN  IF filled.exc # "" THEN filled
                      ELSE FillPersonalInfo(
                               PySetItem(parsed_data, "personal_info", filled.val).val,
                               Tail(fields))

\* app.py:156-169, the inner try block up to the return
ReconcileExtraction(response_txt) ==
    LET parsed_data == json_loads(response_txt)
    IN  IF parsed_data.exc # "" THEN parsed_data
        ELSE LET top == FillMissing(parsed_data.val, default_data_keys, default_data.o)
             IN  IF top.exc # "" THEN top
                 ELSE FillPersonalInfo(top.val, personal_info_keys)

\* the except clauses returning None, as the other facets' do, instead of
\* default_data
extract_resume_data_ReturningNone(rt, gw) ==
    IF rt = <<>> THEN Returned(default_data, <<>>, <<>>, <<>>)
    ELSE LET prompt == format(extraction_prompt, [resume_text |-> rt])
         IN  IF prompt.exc # ""
             THEN Returned(PyNone, <<>>, <<>>, <<"Extraction error">>)
             ELSE IF gw.raises
                  THEN Returned(PyNone, <<prompt.val.s>>, <<>>, <<"Extraction error">>)
                  ELSE LET parsed == ReconcileExtraction(StripFences(gw.text))
                       IN  IF parsed.exc # ""
                           THEN Returned(PyNone, <<prompt.val.s>>, <<>>,
                                         <<"Extraction error">>)
                           ELSE Returned(parsed.val, <<prompt.val.s>>, <<>>, <<>>)

\* app.py:96-178
extract_resume_data(rt, gw) ==
    IF rt = <<>> THEN Returned(default_data, <<>>, <<>>, <<>>)
    ELSE LET prompt == format(extraction_prompt, [resume_text |-> rt])
         IN  IF prompt.exc # ""
             THEN Returned(default_data, <<>>, <<>>, <<"Extraction error">>)
             ELSE IF gw.raises
                  THEN Returned(default_data, <<prompt.val.s>>, <<>>, <<"Extraction error">>)
                  ELSE LET parsed == ReconcileExtraction(StripFences(gw.text))
                       IN  IF parsed.exc = "JSONDecodeError"
                           THEN Returned(default_data, <<prompt.val.s>>, <<>>,
                                         <<"JSON parsing error", "Response text">>)
                           ELSE IF parsed.exc # ""
                                THEN Returned(default_data, <<prompt.val.s>>, <<>>,
                                              <<"Extraction error">>)
                                ELSE Returned(parsed.val, <<prompt.val.s>>, <<>>, <<>>)

\* app.py:305-357
analyze_soft_skills_and_sentiment(rt, gw) ==
    LET prompt == format(soft_skills_prompt, [text |-> rt])
    IN  IF prompt.exc # ""
        THEN Returned(PyNone, <<>>, <<>>, <<"Error in soft skills analysis">>)
        ELSE IF gw.raises
             THEN Returned(PyNone, <<prompt.val.s>>, <<>>, <<"Error in soft skills analysis">>)
             ELSE LET parsed == json_loads(StripFences(gw.text))
                  IN  IF parsed.exc # ""
                      THEN Returned(PyNone, <<prompt.val.s>>, <<>>,
                                    <<"Error in soft skills analysis">>)
                      ELSE Returned(parsed.val, <<prompt.val.s>>, <<>>, <<>>)

\* the body the layout, summary and enhancement functions share once the
\* request is built: the call, the fence stripping, json.loads and the
\* required-fields loop, with the two except clauses
\* (app.py:412-444, 480-515, 561-601)
\* the same body with a failed request sent a second time
CallAndReconcile_Retrying(request, gw, keys, required_fields, parse_error, error) ==
    IF gw.raises THEN Returned(PyNone, <<request, request>>, <<error>>, <<>>)
    ELSE LET decoded == json_loads(StripFences(gw.text))
             result == IF decoded.exc # "" THEN decoded
                       ELSE FillMissing(decoded.val, keys, required_fields.o)
         IN  IF result.exc = "JSONDecodeError"
             THEN Returned(PyNone, <<request>>, <<parse_error>>, <<>>)
             ELSE IF result.exc # ""
                  THEN Returned(PyNone, <<request>>, <<error>>, <<>>)
                  ELSE Returned(result.val, <<request>>, <<>>, <<>>)

\* the same body with only the JSONDecodeError clause, the outer except
\* clause left out
CallAndReconcile_WithoutOuterExcept(request, gw, keys, required_fields, parse_error, error) ==
    IF gw.raises THEN Propagated("RuntimeError", <<request>>)
    ELSE LET decoded == json_loads(StripFences(gw.text))
             result == IF decoded.exc # "" THEN decoded
                       ELSE FillMissing(decoded.val, keys, required_fields.o)
         IN  IF result.exc = "JSONDecodeError"
             THEN Returned(PyNone, <<request>>, <<parse_error>>, <<>>)
             ELSE IF result.exc # ""
                  THEN Propagated(result.exc, <<request>>)
                  ELSE Returned(result.val, <<request>>, <<>>, <<>>)

CallAndReconcile(request, gw, keys, required_fields, parse_error, error) ==
    IF gw.raises THEN Returned(PyNone, <<request>>, <<error>>, <<>>)
    ELSE LET decoded == json_loads(StripFences(gw.text))
             result == IF decoded.exc # "" THEN decoded
                       ELSE FillMissing(decoded.val, keys, required_fields.o)
         IN  IF result.exc = "JSONDecodeError"
             THEN Returned(PyNone, <<request>>, <<parse_error>>, <<>>)
             ELSE IF result.exc # ""
                  THEN Returned(PyNone, <<request>>, <<error>>, <<>>)
                  ELSE Returned(result.val, <<request>>, <<>>, <<>>)

\* app.py:359-444
analyze_resume_layout(rt, gw) ==
    IF rt = <<>> THEN Returned(PyNone, <<>>, <<>>, <<>>)
    ELSE CallAndReconcile(layout_prompt \o ResumeSection(rt), gw,
                          layout_keys, layout_required_fields,
                          "Error parsing layout analysis response",
                          "Error in layout analysis")

\* app.py:446-515
generate_candidate_summary(rt, jd, gw) ==
    LET prompt == IF jd # <<>> THEN summary_prompt \o JdSection(jd) ELSE summary_prompt
    IN  CallAndReconcile(prompt \o ResumeSection(rt), gw,
                         summary_keys, summary_required_fields,
                         "Error parsing candidate summary",
                         "Error generating candidate summary")

\* app.py:517-601
analyze_ai_enhancements(rt, jd, gw) ==
    LET prompt == IF jd # <<>> THEN enhancements_prompt \o JdSection(jd)
                  ELSE enhancements_prompt
    IN  CallAndReconcile(prompt \o ResumeSection(rt), gw,
                         enhancements_keys, enhancements_required_fields,
                         "Error parsing AI enhancements analysis",
                         "Error generating AI enhancements analysis")

-----------------------------------------------------------------------------
(* The texts the scorer is checked on: up to a bounded number of pieces,   *)
(* each a word with or without the whitespace that ends it.                *)

Pieces == { <<"A", "W", "S", " ">>, <<"a", "w", "s", "\n">>, <<"S", "q", "l", " ">>,
            <<"g", "i", "t">>, <<"p", "y", " ">>, <<" ">> }

RECURSIVE TextsOf(_, _)
TextsOf(pieces, n) ==
    IF n = 0 THEN {<<>>}
    ELSE LET shorter == TextsOf(pieces, n - 1)
         IN  shorter \cup {t \o p : t \in shorter, p \in pieces}

\* the values of the variables a specification does not use
NoScore == [percentage |-> -1, matched_words |-> {}]
NoText == <<"-">>
NoGateway == [raises |-> FALSE, text |-> NoText]
NothingReturned == Returned(PyNone, <<>>, <<>>, <<>>)
NoPdf == [raises |-> FALSE, pages |-> <<>>]
NoDetailedScores ==
    [none |-> TRUE, printed |-> FALSE, escaped |-> "", total_score |-> -1, ats_score |-> -1,
     skills_score |-> -1, experience_score |-> -1, matched_skills |-> {},
     missing_skills |-> {}]
NoJobMatching ==
    [none |-> TRUE, printed |-> FALSE, requests |-> <<>>, matched_keywords |-> {},
     missing_keywords |-> {}, analysis |-> NoText]

NoCall ==
    /\ raw_reply = NoText
    /\ response_text = NoText
    /\ facet = "none"
    /\ gateway = NoGateway
    /\ returned = NothingReturned
    /\ detailed_scores = NoDetailedScores
    /\ job_matching = NoJobMatching

\* no file has the name uploaded_resume.pdf and none was ever created
NoFile == [name |-> 0, files |-> <<>>]

NoSessions ==
    /\ sessions = <<>>
    /\ disk_file = NoFile

NoRun ==
    /\ pdf = NoPdf
    /\ button = FALSE
    /\ temp_file = FALSE
    /\ resume_data = PyNone
    /\ analysis = PyNone
    /\ candidate_summary = PyNone
    /\ ai_enhancements = PyNone
    /\ layout_analysis = PyNone
    /\ calls = <<>>
    /\ requests = <<>>
    /\ errors = <<>>
    /\ NoSessions

\* the resume and the job description of the documented end-to-end example:
\* "Experienced Python developer with AWS and Docker skills" and
\* "Looking for Python AWS Kubernetes engineer"
ScenarioResume ==
    << "E", "x", "p", "e", "r", "i", "e", "n", "c", "e", "d", " ",
       "P", "y", "t", "h", "o", "n", " ", "d", "e", "v", "e", "l",
       "o", "p", "e", "r", " ", "w", "i", "t", "h", " ", "A", "W",
       "S", " ", "a", "n", "d", " ", "D", "o", "c", "k", "e", "r",
       " ", "s", "k", "i", "l", "l", "s" >>

ScenarioJd ==
    << "L", "o", "o", "k", "i", "n", "g", " ", "f", "o", "r", " ",
       "P", "y", "t", "h", "o", "n", " ", "A", "W", "S", " ", "K",
       "u", "b", "e", "r", "n", "e", "t", "e", "s", " ", "e", "n",
       "g", "i", "n", "e", "e", "r" >>

ScorerInit ==
    /\ pc = "scorer_input"
    /\ resume_text \in TextsOf(Pieces, MaxResumeWords) \cup {ScenarioResume}
    /\ job_description \in TextsOf(Pieces, MaxJdWords) \cup {ScenarioJd}
    /\ ats = NoScore
    /\ NoCall
    /\ NoRun

ScoreAts ==
    /\ pc = "scorer_input"
    /\ ats' = calculate_ats_score(resume_text, job_description)
    /\ pc' = "scorer_done"
    /\ UNCHANGED <<resume_text, job_description, callVars, sessionVars, runVars>>

ScorerNext == ScoreAts

SpecScorer == ScorerInit /\ [][ScorerNext]_vars

-----------------------------------------------------------------------------
(* The replies the fence stripping is checked on: up to a bounded number   *)
(* of pieces, each a marker, part of a marker, whitespace or payload.      *)

ReplyPieces == { FenceJson, Fence, <<Backtick, Backtick>>, <<" ">>, <<"\n">>, <<"x">> }

ExtractorInit ==
    /\ pc = "extractor_input"
    /\ raw_reply \in TextsOf(ReplyPieces, MaxReplyPieces)
    /\ response_text = NoText
    /\ resume_text = NoText
    /\ job_description = NoText
    /\ ats = NoScore
    /\ facet = "none"
    /\ gateway = NoGateway
    /\ returned = NothingReturned
    /\ detailed_scores = NoDetailedScores
    /\ job_matching = NoJobMatching
    /\ NoRun

CleanReply ==
    /\ pc = "extractor_input"
    /\ response_text' = StripFences(raw_reply)
    /\ pc' = "extractor_done"
    /\ UNCHANGED <<raw_reply, resume_text, job_description, ats,
                   facet, gateway, returned, detailed_scores, job_matching, runVars,
                   sessionVars>>

ExtractorNext == CleanReply

SpecExtractor == ExtractorInit /\ [][ExtractorNext]_vars

-----------------------------------------------------------------------------
(* Each facet function called on its own, on every outcome of the gateway: *)
(* the call raises, or replies with a text that holds a JSON document      *)
(* (bare, padded, fenced, fenced inside prose) or holds none.              *)

Wrappings(doc) ==
    { <<doc>>,
      <<" ", doc, "\n">>,
      FenceJson \o <<"\n", doc, "\n">> \o Fence,
      Fence \o <<"\n", doc, "\n">> \o Fence,
      <<"Here is the JSON:", "\n">> \o FenceJson \o <<"\n", doc, "\n">> \o Fence
          \o <<"\n", "Hope this helps.">> }

NonJsonReplies ==
    { <<>>, <<" ">>, <<"n", "o", " ", "j", "s", "o", "n">>,
      FenceJson \o <<"\n", "{", "x">>,
      Fence \o <<"x">> \o Fence }

Replies == NonJsonReplies \cup UNION {Wrappings(doc) : doc \in DOMAIN JsonDocs}

GatewayOutcomes ==
    {[raises |-> TRUE, text |-> <<>>]} \cup {[raises |-> FALSE, text |-> t] : t \in Replies}

ResumeTexts == { <<>>, <<"c", "v">>, <<"{", "c", "v", "}", " ", "x">> }
JobDescriptions == { <<>>, <<"j", "d">>, <<" ">> }

FacetNames == { "analyze_resume", "extract_resume_data", "analyze_soft_skills_and_sentiment",
                "analyze_resume_layout", "generate_candidate_summary",
                "analyze_ai_enhancements" }

FacetInit ==
    /\ pc = "facet_input"
    /\ facet \in FacetNames
    /\ resume_text \in ResumeTexts
    /\ job_description \in JobDescriptions
    /\ gateway \in GatewayOutcomes
    /\ returned = NothingReturned
    /\ ats = NoScore
    /\ raw_reply = NoText
    /\ response_text = NoText
    /\ detailed_scores = NoDetailedScores
    /\ job_matching = NoJobMatching
    /\ NoRun

FacetReturns(name, result) ==
    /\ pc = "facet_input"
    /\ facet = name
    /\ returned' = result
    /\ pc' = "facet_done"
    /\ UNCHANGED <<facet, resume_text, job_description, gateway, ats, raw_reply,
                   response_text, detailed_scores, job_matching, runVars, sessionVars>>

CallAnalyzeResume ==
    FacetReturns("analyze_resume", analyze_resume(resume_text, job_description, gateway))

CallExtractResumeData ==
    FacetReturns("extract_resume_data", extract_resume_data(resume_text, gateway))

CallAnalyzeSoftSkills ==
    FacetReturns("analyze_soft_skills_and_sentiment",
                 analyze_soft_skills_and_sentiment(resume_text, gateway))

CallAnalyzeResumeLayout ==
    FacetReturns("analyze_resume_layout", analyze_resume_layout(resume_text, gateway))

CallGenerateCandidateSummary ==
    FacetReturns("generate_candidate_summary",
                 generate_candidate_summary(resume_text, job_description, gateway))

CallAnalyzeAiEnhancements ==
    FacetReturns("analyze_ai_enhancements",
                 analyze_ai_enhancements(resume_text, job_description, gateway))

FacetNext ==
    \/ CallAnalyzeResume
    \/ CallExtractResumeData
    \/ CallAnalyzeSoftSkills
    \/ CallAnalyzeResumeLayout
    \/ CallGenerateCandidateSummary
    \/ CallAnalyzeAiEnhancements

SpecFacet == FacetInit /\ [][FacetNext]_vars

-----------------------------------------------------------------------------
(* What the script's display code does with a facet's result: the          *)
(* subscripts, loops, joins and .lower() calls that raise on a value of    *)
(* another shape.  Any exception ends the analysis at app.py:1110.         *)

\* a for loop, or str.join, can iterate v
Iterable(v) == v.t \in {"str", "list", "dict"}

\* the values a loop over v yields
ItemsOf(v) ==
    CASE v.t = "list" -> Range(v.l)
      [] v.t = "str" -> {PyStr(<<v.s[i]>>) : i \in 1..Len(v.s)}
      [] v.t = "dict" -> {PyStr(<<k>>) : k \in DOMAIN v.o}
      [] OTHER -> {}

\* ", ".join(v) raises
JoinRaises(v) == ~Iterable(v) \/ \E item \in ItemsOf(v) : item.t # "str"

\* for item in v: item[lowered].lower(), item[k] for each k of keys
EachItemHas(v, lowered, keys) ==
    /\ Iterable(v)
    /\ \A item \in ItemsOf(v) :
          /\ item.t = "dict"
          /\ keys \subseteq DOMAIN item.o
          /\ item.o[lowered].t = "str"

\* v[k] for every k of keys, each then looped over
LoopsOverKeys(v, keys) ==
    /\ v.t = "dict"
    /\ keys \subseteq DOMAIN v.o
    /\ \A k \in keys : Iterable(v.o[k])

\* app.py:181-230
DisplayResumeDataRaises(rd) ==
    /\ Truthy(rd)
    /\ \/ rd.t # "dict"
       \/ LET get(k) == IF k \in DOMAIN rd.o THEN rd.o[k] ELSE EmptyList
              skills == get("skills")
              education == get("education")
              experience == get("experience")
              certifications == get("certifications")
          IN  \/ Truthy(skills) /\ JoinRaises(skills)
              \/ Truthy(education)
                    /\ (~Iterable(education) \/ \E edu \in ItemsOf(education) : edu.t # "dict")
              \/ Truthy(experience)
                    /\ \/ ~Iterable(experience)
                       \/ \E exp \in ItemsOf(experience) :
                             \/ exp.t # "dict"
                             \/ /\ "responsibilities" \in DOMAIN exp.o
                                /\ Truthy(exp.o["responsibilities"])
                                /\ ~Iterable(exp.o["responsibilities"])
              \/ Truthy(certifications) /\ ~Iterable(certifications)

\* app.py:724-795
DisplaySummaryRaises(cs) ==
    \/ cs.t # "dict"
    \/ ~({"professional_summary", "experience_level", "career_focus"} \subseteq DOMAIN cs.o)
    \/ ~LoopsOverKeys(cs, {"key_qualifications", "core_skills", "major_achievements"})

\* app.py:803-887
DisplayEnhancementsRaises(ai) ==
    \/ ai.t # "dict"
    \/ ~({"domain_analysis", "enhancement_opportunities", "fine_tuning_recommendations"}
            \subseteq DOMAIN ai.o)
    \/ LET domain == ai.o["domain_analysis"]
       IN  \/ domain.t # "dict"
           \/ ~({"primary_domain", "technical_depth", "specialized_terminology"}
                   \subseteq DOMAIN domain.o)
           \/ JoinRaises(domain.o["specialized_terminology"])
    \/ ~EachItemHas(ai.o["enhancement_opportunities"], "potential_impact",
                    {"potential_impact", "area", "suggestion"})
    \/ ~LoopsOverKeys(ai.o["fine_tuning_recommendations"],
                      {"dataset_suggestions", "model_improvements", "context_enhancements"})

\* app.py:895-968, 1035-1108
DisplayLayoutRaises(la) ==
    \/ la.t # "dict"
    \/ ~({"layout_analysis", "formatting_issues", "design_recommendations"}
            \subseteq DOMAIN la.o)
    \/ ~LoopsOverKeys(la.o["layout_analysis"], {"strengths", "weaknesses"})
    \/ ~EachItemHas(la.o["formatting_issues"], "severity", {"severity", "issue", "fix"})
    \/ ~EachItemHas(la.o["design_recommendations"], "impact", {"impact", "area", "suggestion"})

-----------------------------------------------------------------------------
(* One run of the script with a file uploaded, app.py:676-1117.  Streamlit *)
(* runs the script top to bottom; the run stops at st.stop().              *)

\* the page texts page.extract_text() yields, joined as lines 34-37 join them
RECURSIVE JoinPages(_)
JoinPages(pages) ==
    IF pages = <<>> THEN <<>>
    ELSE (IF Head(pages) # <<>> THEN Head(pages) \o <<"\n">> ELSE <<>>)
            \o JoinPages(Tail(pages))

\* app.py:30-41
extract_text_from_pdf(doc) ==
    IF doc.raises
    THEN [text |-> <<>>, errors |-> <<"Error extracting text from PDF">>]
    ELSE [text |-> strip(JoinPages(doc.pages)), errors |-> <<>>]

\* the sequences that list the elements of S once each: list(set)
Orderings(S) ==
    {seq \in [1..Cardinality(S) -> S] : \A i, j \in 1..Cardinality(S) : seq[i] = seq[j] => i = j}

Pdfs ==
    { [raises |-> TRUE, pages |-> <<>>],
      [raises |-> FALSE, pages |-> <<>>],
      [raises |-> FALSE, pages |-> << <<>>, <<" ", "\n">> >>],
      [raises |-> FALSE, pages |-> << <<"A", "W", "S", " ", "g", "i", "t">> >>],
      [raises |-> FALSE, pages |-> << <<"c", "v">>, <<>>, <<"S", "q", "l">> >>] }

RunJobDescriptions == { <<>>, <<"a", "w", "s", " ", "S", "q", "l">> }

RunDocs == { "empty_object", "full_summary", "qualifications_number", "full_enhancements",
             "primary_domain_only", "full_layout", "layout_analysis_empty" }

RunGatewayOutcomes ==
    { [raises |-> TRUE, text |-> <<>>],
      [raises |-> FALSE, text |-> <<"n", "o", " ", "j", "s", "o", "n">>] }
    \cup { [raises |-> FALSE, text |-> FenceJson \o <<"\n", doc, "\n">> \o Fence] :
              doc \in RunDocs }

Init ==
    /\ pc = "start"
    /\ pdf \in Pdfs
    /\ button \in BOOLEAN
    /\ job_description \in RunJobDescriptions
    /\ resume_text = <<>>
    /\ temp_file = FALSE
    /\ resume_data = PyNone
    /\ analysis = PyNone
    /\ candidate_summary = PyNone
    /\ ai_enhancements = PyNone
    /\ layout_analysis = PyNone
    /\ calls = <<>>
    /\ requests = <<>>
    /\ errors = <<>>
    /\ ats = NoScore
    /\ NoCall
    /\ NoSessions

\* the same lines without the st.stop() of line 686
ReadUploadWithoutStop ==
    /\ pc = "start"
    /\ temp_file' = TRUE
    /\ LET extracted == extract_text_from_pdf(pdf)
       IN  /\ resume_text' = extracted.text
           /\ errors' = IF strip(extracted.text) = <<>>
                        THEN extracted.errors \o <<"Could not extract text from the PDF">>
                        ELSE extracted.errors
           /\ pc' = IF button THEN "extract_resume_data" ELSE "cleanup"
    /\ UNCHANGED <<pdf, button, job_description, resume_data, analysis, candidate_summary,
                   ai_enhancements, layout_analysis, calls, requests, ats, callVars, sessionVars>>

\* app.py:676-688: write the temporary file, extract its text, stop when
\* there is none, and go on to the analysis when the button was pressed
ReadUpload ==
    /\ pc = "start"
    /\ temp_file' = TRUE
    /\ LET extracted == extract_text_from_pdf(pdf)
       IN  /\ resume_text' = extracted.text
           /\ IF strip(extracted.text) = <<>>
              THEN /\ errors' = extracted.errors \o <<"Could not extract text from the PDF">>
                   /\ pc' = "stopped"
              ELSE /\ errors' = extracted.errors
                   /\ pc' = IF button THEN "extract_resume_data" ELSE "cleanup"
    /\ UNCHANGED <<pdf, button, job_description, resume_data, analysis, candidate_summary,
                   ai_enhancements, layout_analysis, calls, requests, ats, callVars, sessionVars>>

\* what one facet call adds to the run's record
Called(name, result) ==
    /\ calls' = Append(calls, name)
    /\ requests' = IF result.requests # <<>> THEN Append(requests, name) ELSE requests

\* the display code raised: the except clause of lines 1110-1111
Shows(result, raised, next) ==
    IF raised
    THEN /\ errors' = errors \o result.errors \o <<"Error processing resume">>
         /\ pc' = "cleanup"
    ELSE /\ errors' = errors \o result.errors
         /\ pc' = next

\* app.py:693-694
RunExtractResumeData ==
    /\ pc = "extract_resume_data"
    /\ \E gw \in RunGatewayOutcomes :
          LET result == extract_resume_data(resume_text, gw)
          IN  /\ resume_data' = result.ret
              /\ Called("extract_resume_data", result)
              /\ IF DisplayResumeDataRaises(result.ret)
                 THEN /\ errors' = errors \o <<"Error processing resume">>
                      /\ pc' = "cleanup"
                 ELSE /\ errors' = IF Truthy(result.ret) THEN errors
                                   ELSE Append(errors, "Could not extract resume information")
                      /\ pc' = "analyze_resume"
    /\ UNCHANGED <<pdf, button, temp_file, resume_text, job_description, analysis,
                   candidate_summary, ai_enhancements, layout_analysis, ats, callVars, sessionVars>>

\* app.py:697-716: the evaluation, the keyword score, and the gate on the
\* evaluation that everything after it sits behind
RunAnalyzeResume ==
    /\ pc = "analyze_resume"
    /\ \E gw \in RunGatewayOutcomes :
          LET result == analyze_resume(resume_text, job_description, gw)
          IN  /\ analysis' = result.ret
              /\ calls' = calls \o <<"analyze_resume", "calculate_ats_score">>
              /\ requests' = IF result.requests # <<>>
                             THEN Append(requests, "analyze_resume") ELSE requests
              /\ errors' = errors \o result.errors
              /\ pc' = IF Truthy(result.ret) THEN "generate_candidate_summary" ELSE "cleanup"
    /\ ats' = calculate_ats_score(resume_text, job_description)
    /\ UNCHANGED <<pdf, button, temp_file, resume_text, job_description, resume_data,
                   candidate_summary, ai_enhancements, layout_analysis, callVars, sessionVars>>

\* app.py:722-795
RunCandidateSummary ==
    /\ pc = "generate_candidate_summary"
    /\ \E gw \in RunGatewayOutcomes :
          LET result == generate_candidate_summary(resume_text, job_description, gw)
          IN  /\ candidate_summary' = result.ret
              /\ Called("generate_candidate_summary", result)
              /\ Shows(result, Truthy(result.ret) /\ DisplaySummaryRaises(result.ret),
                       "analyze_ai_enhancements")
    /\ UNCHANGED <<pdf, button, temp_file, resume_text, job_description, resume_data,
                   analysis, ai_enhancements, layout_analysis, ats, callVars, sessionVars>>

\* app.py:801-887
RunAiEnhancements ==
    /\ pc = "analyze_ai_enhancements"
    /\ \E gw \in RunGatewayOutcomes :
          LET result == analyze_ai_enhancements(resume_text, job_description, gw)
          IN  /\ ai_enhancements' = result.ret
              /\ Called("analyze_ai_enhancements", result)
              /\ Shows(result, Truthy(result.ret) /\ DisplayEnhancementsRaises(result.ret),
                       "analyze_resume_layout")
    /\ UNCHANGED <<pdf, button, temp_file, resume_text, job_description, resume_data,
                   analysis, candidate_summary, layout_analysis, ats, callVars, sessionVars>>

\* app.py:893-968
RunResumeLayout ==
    /\ pc = "analyze_resume_layout"
    /\ \E gw \in RunGatewayOutcomes :
          LET result == analyze_resume_layout(resume_text, gw)
          IN  /\ layout_analysis' = result.ret
              /\ Called("analyze_resume_layout", result)
              /\ Shows(result, Truthy(result.ret) /\ DisplayLayoutRaises(result.ret),
                       "recommend_courses")
    /\ UNCHANGED <<pdf, button, temp_file, resume_text, job_description, resume_data,
                   analysis, candidate_summary, ai_enhancements, ats, callVars, sessionVars>>

\* app.py:973-1006: skills is resume_data['skills'] itself, which extend()
\* changes in place; list(jd_skills) lists a set in some order.  The course
\* lookup of Courses.py is called when there is a skill and its result is
\* only displayed.
RunRecommendCourses ==
    /\ pc = "recommend_courses"
    /\ LET has_skills == Truthy(resume_data) /\ resume_data.t = "dict"
                            /\ "skills" \in DOMAIN resume_data.o
           skills == IF has_skills THEN resume_data.o["skills"] ELSE EmptyList
           jd_skills == WordsLongerThan2(job_description)
       IN  IF job_description # <<>> /\ skills.t # "list"
           THEN /\ errors' = Append(errors, "Error processing resume")
                /\ pc' = "cleanup"
                /\ UNCHANGED <<resume_data, calls>>
           ELSE /\ \E order \in Orderings(jd_skills) :
                      LET extended == IF job_description # <<>>
                                      THEN PyList(skills.l \o [i \in 1..Len(order) |->
                                                                  PyStr(order[i])])
                                      ELSE skills
                      IN  /\ resume_data' = IF has_skills /\ job_description # <<>>
                                            THEN PySetItem(resume_data, "skills", extended).val
                                            ELSE resume_data
                          /\ calls' = IF Truthy(extended)
                                      THEN Append(calls, "recommend_courses") ELSE calls
                /\ pc' = "analyze_resume_layout_again"
                /\ UNCHANGED errors
    /\ UNCHANGED <<pdf, button, temp_file, resume_text, job_description, analysis,
                   candidate_summary, ai_enhancements, layout_analysis, requests, ats,
                   callVars, sessionVars>>

\* the second layout critique asked for again until one is returned
RunResumeLayoutAgain_UntilReturned ==
    /\ pc = "analyze_resume_layout_again"
    /\ \E gw \in RunGatewayOutcomes :
          LET result == analyze_resume_layout(resume_text, gw)
          IN  /\ layout_analysis' = result.ret
              /\ Called("analyze_resume_layout", result)
              /\ IF Truthy(result.ret)
                 THEN Shows(result, DisplayLayoutRaises(result.ret), "cleanup")
                 ELSE /\ errors' = errors
                      /\ pc' = pc
    /\ UNCHANGED <<pdf, button, temp_file, resume_text, job_description, resume_data,
                   analysis, candidate_summary, ai_enhancements, ats, callVars, sessionVars>>

\* app.py:1033-1108: the layout critique is requested and shown a second time
RunResumeLayoutAgain ==
    /\ pc = "analyze_resume_layout_again"
    /\ \E gw \in RunGatewayOutcomes :
          LET result == analyze_resume_layout(resume_text, gw)
          IN  /\ layout_analysis' = result.ret
              /\ Called("analyze_resume_layout", result)
              /\ Shows(result, Truthy(result.ret) /\ DisplayLayoutRaises(result.ret),
                       "cleanup")
    /\ UNCHANGED <<pdf, button, temp_file, resume_text, job_description, resume_data,
                   analysis, candidate_summary, ai_enhancements, ats, callVars, sessionVars>>

\* app.py:1113-1114
RemoveTempFile ==
    /\ pc = "cleanup"
    /\ temp_file' = FALSE
    /\ pc' = "done"
    /\ UNCHANGED <<pdf, button, resume_text, job_description, resume_data, analysis,
                   candidate_summary, ai_enhancements, layout_analysis, calls, requests,
                   errors, ats, callVars, sessionVars>>

Next ==
    \/ ReadUpload
    \/ RunExtractResumeData
    \/ RunAnalyzeResume
    \/ RunCandidateSummary
    \/ RunAiEnhancements
    \/ RunResumeLayout
    \/ RunRecommendCourses
    \/ RunResumeLayoutAgain
    \/ RemoveTempFile

Spec == Init /\ [][Next]_vars

\* Streamlit executes the statements of the script one after another, and a
\* gateway request responds or raises: a step that can be taken is taken
SpecFair == Spec /\ WF_vars(Next)

-----------------------------------------------------------------------------
(* calculate_detailed_scores, app.py:269-303.  Scores are in hundredths of *)
(* a percent.                                                              *)

\* len(v)
PyLen(v) ==
    CASE v.t = "list" -> Ok(Len(v.l))
      [] v.t = "str" -> Ok(Len(v.s))
      [] v.t = "dict" -> Ok(Cardinality(DOMAIN v.o))
      [] OTHER -> Raise("TypeError")

\* v.get(key, []) on a dict
PyGet(v, key) ==
    IF v.t # "dict" THEN Raise("AttributeError")
    ELSE IF key \in DOMAIN v.o THEN Ok(v.o[key]) ELSE Ok(EmptyList)

\* set(skill.lower() for skill in skills)
LoweredSkills(skills) ==
    IF ~Iterable(skills) THEN Raise("TypeError")
    ELSE IF \E item \in ItemsOf(skills) : item.t # "str" THEN Raise("AttributeError")
    ELSE [exc |-> "", val |-> {lower(item.s) : item \in ItemsOf(skills)}]

\* min(100, len(experience) * 20)
ExperienceScore(n) == IF n * 20 < 100 THEN n * 20 ELSE 100

\* (count / total) * 100 if the job description has words else 0, lines 278, 283
Score(count, total) == IF total = 0 THEN FloatZero ELSE Percentage(count, total)

\* the weights of the first two scores exchanged
WeightedTotal_WeightsExchanged(ats_score, skills_score, experience_score) ==
    FloatAdd[FloatAdd[FloatMul[ats_score, FloatDiv[4, 10]],
                      FloatMul[skills_score, FloatDiv[3, 10]]],
             FloatMul[FloatOf[experience_score], FloatDiv[3, 10]]]

\* (ats_score * 0.3) + (skills_score * 0.4) + (experience_score * 0.3), line 290;
\* the literal 0.3 is the float nearest to 3/10
WeightedTotal(ats_score, skills_score, experience_score) ==
    FloatAdd[FloatAdd[FloatMul[ats_score, FloatDiv[3, 10]],
                      FloatMul[skills_score, FloatDiv[4, 10]]],
             FloatMul[FloatOf[experience_score], FloatDiv[3, 10]]]

\* the except clause of lines 301-303
DetailedScoringFailed ==
    [none |-> TRUE, printed |-> TRUE, escaped |-> "", total_score |-> 0, ats_score |-> 0,
     skills_score |-> 0, experience_score |-> 0, matched_skills |-> {},
     missing_skills |-> {}]

\* the experience entries counted at 10 points each
calculate_detailed_scores_TenPerEntry(rt, jd, rd) ==
    LET skills == PyGet(rd, "skills")
        lowered == IF skills.exc = "" THEN LoweredSkills(skills.val) ELSE skills
        experience == PyGet(rd, "experience")
        count == IF experience.exc = "" THEN PyLen(experience.val) ELSE experience
    IN  IF lowered.exc # "" \/ count.exc # "" THEN DetailedScoringFailed
        ELSE LET jd_words == WordsLongerThan2(jd)
                 matched_words == jd_words \cap WordsLongerThan2(rt)
                 matched_skills == jd_words \cap lowered.val
                 n == Cardinality(jd_words)
                 experience_score == IF count.val * 10 < 100 THEN count.val * 10 ELSE 100
                 ats_score == Score(Cardinality(matched_words), n)
                 skills_score == Score(Cardinality(matched_skills), n)
             IN  [none |-> FALSE, printed |-> FALSE, escaped |-> "",
                  total_score |-> Round2[WeightedTotal(ats_score, skills_score, experience_score)],
                  ats_score |-> Round2[ats_score],
                  skills_score |-> Round2[skills_score],
                  experience_score |-> 100 * experience_score,
                  matched_skills |-> matched_skills,
                  missing_skills |-> jd_words \ lowered.val]

\* the weights of the keyword score and the skills score exchanged
calculate_detailed_scores_WeightsExchanged(rt, jd, rd) ==
    LET skills == PyGet(rd, "skills")
        lowered == IF skills.exc = "" THEN LoweredSkills(skills.val) ELSE skills
        experience == PyGet(rd, "experience")
        count == IF experience.exc = "" THEN PyLen(experience.val) ELSE experience
    IN  IF lowered.exc # "" \/ count.exc # "" THEN DetailedScoringFailed
        ELSE LET jd_words == WordsLongerThan2(jd)
                 matched_words == jd_words \cap WordsLongerThan2(rt)
                 matched_skills == jd_words \cap lowered.val
                 n == Cardinality(jd_words)
                 experience_score == ExperienceScore(count.val)
                 ats_score == Score(Cardinality(matched_words), n)
                 skills_score == Score(Cardinality(matched_skills), n)
             IN  [none |-> FALSE, printed |-> FALSE, escaped |-> "",
                  total_score |-> Round2[WeightedTotal_WeightsExchanged(ats_score, skills_score, experience_score)],
                  ats_score |-> Round2[ats_score],
                  skills_score |-> Round2[skills_score],
                  experience_score |-> 100 * experience_score,
                  matched_skills |-> matched_skills,
                  missing_skills |-> jd_words \ lowered.val]

\* the same with the overlap divided by the number of resume words
calculate_detailed_scores_OverResumeWords(rt, jd, rd) ==
    LET skills == PyGet(rd, "skills")
        lowered == IF skills.exc = "" THEN LoweredSkills(skills.val) ELSE skills
        experience == PyGet(rd, "experience")
        count == IF experience.exc = "" THEN PyLen(experience.val) ELSE experience
    IN  IF lowered.exc # "" \/ count.exc # "" THEN DetailedScoringFailed
        ELSE LET jd_words == WordsLongerThan2(jd)
                 resume_words == WordsLongerThan2(rt)
                 matched_words == jd_words \cap resume_words
                 matched_skills == jd_words \cap lowered.val
                 n == Cardinality(jd_words)
                 r == Cardinality(resume_words)
                 experience_score == ExperienceScore(count.val)
                 ats_score == Score(Cardinality(matched_words), r)
                 skills_score == Score(Cardinality(matched_skills), n)
             IN  [none |-> FALSE, printed |-> FALSE, escaped |-> "",
                  total_score |-> Round2[WeightedTotal(ats_score, skills_score, experience_score)],
                  ats_score |-> Round2[ats_score],
                  skills_score |-> Round2[skills_score],
                  experience_score |-> 100 * experience_score,
                  matched_skills |-> matched_skills,
                  missing_skills |-> jd_words \ lowered.val]

\* app.py:269-303.  Line 274 is the first to read resume_data, then line
\* 286; any exception is caught at line 301.  The scores are floats until
\* the rounding of lines 293-296; the experience score is an int.
calculate_detailed_scores(rt, jd, rd) ==
    LET skills == PyGet(rd, "skills")
        lowered == IF skills.exc = "" THEN LoweredSkills(skills.val) ELSE skills
        experience == PyGet(rd, "experience")
        count == IF experience.exc = "" THEN PyLen(experience.val) ELSE experience
    IN  IF lowered.exc # "" \/ count.exc # "" THEN DetailedScoringFailed
        ELSE LET jd_words == WordsLongerThan2(jd)
                 matched_words == jd_words \cap WordsLongerThan2(rt)
                 matched_skills == jd_words \cap lowered.val
                 n == Cardinality(jd_words)
                 experience_score == ExperienceScore(count.val)
                 ats_score == Score(Cardinality(matched_words), n)
                 skills_score == Score(Cardinality(matched_skills), n)
             IN  [none |-> FALSE, printed |-> FALSE, escaped |-> "",
                  total_score |-> Round2[WeightedTotal(ats_score, skills_score, experience_score)],
                  ats_score |-> Round2[ats_score],
                  skills_score |-> Round2[skills_score],
                  experience_score |-> 100 * experience_score,
                  matched_skills |-> matched_skills,
                  missing_skills |-> jd_words \ lowered.val]

\* the arguments the detailed scoring is checked on
MaxExperience == 6
MaxDetailedJdWords == 2

ExperienceEntry == PyDict([title |-> X])

SkillValues ==
    { EmptyList,
      PyList(<< PyStr(<<"A", "W", "S">>) >>),
      PyList(<< PyStr(<<"S", "q", "l">>), PyStr(<<"g", "i", "t">>) >>),
      PyList(<< PyStr(<<"p", "y">>) >>),
      PyList(<< PyStr(<<"g", "i", "t">>), PyNum("3") >>),
      PyStr(<<"g", "i", "t">>),
      PyNum("3"),
      PyNone }

ExperienceValues ==
    { PyList([i \in 1..n |-> ExperienceEntry]) : n \in 0..MaxExperience }
    \cup { PyNone, PyNum("3"), PyStr(<<"x", "y">>), ExperienceEntry }

ResumeDatas ==
    { PyDict([skills |-> s, experience |-> e]) : s \in SkillValues, e \in ExperienceValues }
    \cup { PyNone, EmptyList, PyDict(<<>>), default_data, FullExtraction,
           PyDict([skills |-> PyList(<< PyStr(<<"A", "W", "S">>) >>)]) }

DetailedInit ==
    /\ pc = "detailed_input"
    /\ resume_text \in TextsOf(Pieces, 1)
    /\ job_description \in TextsOf(Pieces, MaxDetailedJdWords)
    /\ resume_data \in ResumeDatas
    /\ detailed_scores = NoDetailedScores
    /\ job_matching = NoJobMatching
    /\ ats = NoScore
    /\ raw_reply = NoText
    /\ response_text = NoText
    /\ facet = "none"
    /\ gateway = NoGateway
    /\ returned = NothingReturned
    /\ pdf = NoPdf
    /\ button = FALSE
    /\ temp_file = FALSE
    /\ analysis = PyNone
    /\ candidate_summary = PyNone
    /\ ai_enhancements = PyNone
    /\ layout_analysis = PyNone
    /\ calls = <<>>
    /\ requests = <<>>
    /\ errors = <<>>
    /\ NoSessions

ScoreDetailed ==
    /\ pc = "detailed_input"
    /\ detailed_scores' = calculate_detailed_scores(resume_text, job_description, resume_data)
    /\ pc' = "detailed_done"
    /\ UNCHANGED <<resume_text, job_description, ats, raw_reply, response_text, facet,
                   gateway, returned, job_matching, runVars, sessionVars>>

DetailedNext == ScoreDetailed

SpecDetailed == DetailedInit /\ [][DetailedNext]_vars

\* every function of app.py:61-601 the orchestration is made of, each
\* called on its own
EveryFacetInit == FacetInit \/ DetailedInit

EveryFacetNext == FacetNext \/ DetailedNext

SpecEveryFacet == EveryFacetInit /\ [][EveryFacetNext]_vars

-----------------------------------------------------------------------------
(* The two local scorers called on the same texts, app.py:44-58, 269-303 *)

\* the resume data the two scorers are compared on
ScorersResumeDatas ==
    { default_data, FullExtraction, PyNone,
      PyDict([skills |-> PyList(<< PyStr(<<"A", "W", "S">>) >>),
              experience |-> PyList(<< ExperienceEntry >>)]) }

ScorersInit ==
    /\ pc = "scorers_input"
    /\ resume_text \in TextsOf(Pieces, MaxResumeWords)
    /\ job_description \in TextsOf(Pieces, MaxDetailedJdWords)
    /\ resume_data \in ScorersResumeDatas
    /\ detailed_scores = NoDetailedScores
    /\ job_matching = NoJobMatching
    /\ ats = NoScore
    /\ raw_reply = NoText
    /\ response_text = NoText
    /\ facet = "none"
    /\ gateway = NoGateway
    /\ returned = NothingReturned
    /\ pdf = NoPdf
    /\ button = FALSE
    /\ temp_file = FALSE
    /\ analysis = PyNone
    /\ candidate_summary = PyNone
    /\ ai_enhancements = PyNone
    /\ layout_analysis = PyNone
    /\ calls = <<>>
    /\ requests = <<>>
    /\ errors = <<>>
    /\ NoSessions

ScoreBoth ==
    /\ pc = "scorers_input"
    /\ ats' = calculate_ats_score(resume_text, job_description)
    /\ detailed_scores' = calculate_detailed_scores(resume_text, job_description, resume_data)
    /\ pc' = "scorers_done"
    /\ UNCHANGED <<resume_text, job_description, raw_reply, response_text, facet,
                   gateway, returned, job_matching, runVars, sessionVars>>

ScorersNext == ScoreBoth

SpecScorers == ScorersInit /\ [][ScorersNext]_vars

-----------------------------------------------------------------------------
(* analyze_job_matching, app.py:232-264, and with calculate_detailed_scores *)
(* the keyword sets the two return                                          *)

\* app.py:244-255
job_matching_prompt(rt, jd) ==
    <<"Analyze the resume against the job description and provide: ...", "Resume:">> \o rt
        \o <<"Job Description:">> \o jd \o <<"Format your response in a clear, structured way ...">>

\* what a call of analyze_job_matching returned, sent and printed
JobMatching(matched, missing, reply, sent) ==
    [none |-> FALSE, printed |-> FALSE, requests |-> sent, matched_keywords |-> matched,
     missing_keywords |-> missing, analysis |-> reply]

JobMatchingFailed(sent) ==
    [none |-> TRUE, printed |-> TRUE, requests |-> sent, matched_keywords |-> {},
     missing_keywords |-> {}, analysis |-> NoText]

\* the same with the missing keywords taken from the resume's words
analyze_job_matching_MissingFromResume(rt, jd, gw) ==
    LET jd_words == WordsLongerThan2(jd)
        resume_words == WordsLongerThan2(rt)
        prompt == job_matching_prompt(rt, jd)
    IN  IF gw.raises THEN JobMatchingFailed(<<prompt>>)
        ELSE JobMatching(jd_words \cap resume_words, resume_words \ jd_words,
                         strip(gw.text), <<prompt>>)

analyze_job_matching(rt, jd, gw) ==
    LET jd_words == WordsLongerThan2(jd)
        resume_words == WordsLongerThan2(rt)
        matched_keywords == jd_words \cap resume_words
        missing_keywords == jd_words \ resume_words
        prompt == job_matching_prompt(rt, jd)
    IN  IF gw.raises THEN JobMatchingFailed(<<prompt>>)
        ELSE JobMatching(matched_keywords, missing_keywords, strip(gw.text), <<prompt>>)

JobMatchingGateways ==
    { [raises |-> TRUE, text |-> <<>>],
      [raises |-> FALSE, text |-> <<" ", "o", "k", "\n">>] }

JobMatchingInit ==
    /\ pc = "job_matching_input"
    /\ resume_text \in TextsOf(Pieces, MaxResumeWords)
    /\ job_description \in TextsOf(Pieces, MaxDetailedJdWords)
    /\ gateway \in JobMatchingGateways
    /\ job_matching = NoJobMatching
    /\ detailed_scores = NoDetailedScores
    /\ ats = NoScore
    /\ raw_reply = NoText
    /\ response_text = NoText
    /\ facet = "none"
    /\ returned = NothingReturned
    /\ NoRun

CallAnalyzeJobMatching ==
    /\ pc = "job_matching_input"
    /\ job_matching' = analyze_job_matching(resume_text, job_description, gateway)
    /\ pc' = "job_matching_done"
    /\ UNCHANGED <<resume_text, job_description, ats, raw_reply, response_text, facet,
                   gateway, returned, detailed_scores, runVars, sessionVars>>

KeywordSetsInit == DetailedInit \/ JobMatchingInit

KeywordSetsNext == ScoreDetailed \/ CallAnalyzeJobMatching

SpecKeywordSets == KeywordSetsInit /\ [][KeywordSetsNext]_vars

-----------------------------------------------------------------------------
(* Several sessions of the script at once.  Streamlit runs each session's  *)
(* script in a thread of one process, so every session writes, reads and   *)
(* removes the same file "uploaded_resume.pdf" of the working directory    *)
(* (app.py:678-682, 1113-1114).  A session's steps on the file are taken   *)
(* one at a time and interleave with the other sessions' steps.            *)

NumSessions == 2
Sessions == 1..NumSessions

\* what a user may upload: the bytes, and the pages a PDF reader finds in them
Uploads ==
    { [bytes |-> <<"a", "a">>, pages |-> << <<"a", "1">>, <<"a", "2">> >>],
      [bytes |-> <<"b">>, pages |-> << <<"b", "1">>, <<"b", "2">> >>],
      [bytes |-> <<"e", "e", "e">>, pages |-> << <<" ">> >>] }

\* the bytes are those of a PDF, and the pages a reader finds in them
IsPdf(bytes) == \E u \in Uploads : u.bytes = bytes
PagesIn(bytes) == (CHOOSE u \in Uploads : u.bytes = bytes).pages

\* f.write(buffer) at the start of a file that holds old: the bytes
\* beyond the buffer's length stay
Overwrite(old, buffer) ==
    buffer \o (IF Len(old) > Len(buffer) THEN SubSeq(old, Len(buffer) + 1, Len(old))
               ELSE <<>>)

\* a session that has no PDF reader open
NoReader == [file |-> 0, bytes |-> <<>>, pages |-> <<>>, page |-> 0, text |-> <<>>]

SessionsInit ==
    /\ pc = "sessions"
    /\ sessions \in [Sessions -> { [pc |-> "open", upload |-> u, handle |-> 0,
                                    reader |-> NoReader,
                                    resume_text |-> <<>>, errors |-> <<>>] :
                                  u \in Uploads }]
    /\ disk_file = NoFile
    /\ resume_text = NoText
    /\ job_description = NoText
    /\ ats = NoScore
    /\ NoCall
    /\ pdf = NoPdf
    /\ button = FALSE
    /\ temp_file = FALSE
    /\ resume_data = PyNone
    /\ analysis = PyNone
    /\ candidate_summary = PyNone
    /\ ai_enhancements = PyNone
    /\ layout_analysis = PyNone
    /\ calls = <<>>
    /\ requests = <<>>
    /\ errors = <<>>

\* session s goes to position next, with the fields of changes replaced
Moves(s, next, changes) ==
    sessions' = [sessions EXCEPT ![s] =
                    [f \in DOMAIN sessions[s] |->
                        IF f = "pc" THEN next
                        ELSE IF f \in DOMAIN changes THEN changes[f]
                        ELSE sessions[s][f]]]

\* app.py:679: open(temp_file, "wb") empties the file of that name, or
\* creates one when there is none; the session holds the file it opened
OpenTempFile(s) ==
    /\ sessions[s].pc = "open"
    /\ disk_file' = IF disk_file.name # 0
                    THEN [disk_file EXCEPT !.files[disk_file.name] = <<>>]
                    ELSE [name |-> Len(disk_file.files) + 1,
                          files |-> Append(disk_file.files, <<>>)]
    /\ Moves(s, "write", [handle |-> disk_file'.name])
    /\ UNCHANGED <<pc, resume_text, job_description, ats, callVars, runVars>>

\* app.py:680: f.write(uploaded_file.getbuffer()) and the close that ends
\* the with block.  The bytes go to the file the session opened, whether or
\* not it still has the name
WriteTempFile(s) ==
    /\ sessions[s].pc = "write"
    /\ disk_file' = [disk_file EXCEPT
                        !.files[sessions[s].handle] = Overwrite(@, sessions[s].upload.bytes)]
    /\ Moves(s, "extract", <<>>)
    /\ UNCHANGED <<pc, resume_text, job_description, ats, callVars, runVars>>

\* app.py:38-41 and 682-686: extract_text_from_pdf returns the text, or ""
\* with an error shown when the reader raised, and the session stops when
\* the text is empty.  The reader is closed.
Extracted(s, text, raised) ==
    LET extracted == IF raised
                     THEN [text |-> <<>>, errors |-> <<"Error extracting text from PDF">>]
                     ELSE [text |-> strip(text), errors |-> <<>>]
    IN  IF strip(extracted.text) = <<>>
        THEN Moves(s, "stopped",
                   [resume_text |-> extracted.text, reader |-> NoReader,
                    errors |-> sessions[s].errors \o extracted.errors
                                  \o <<"Could not extract text from the PDF">>])
        ELSE Moves(s, "check",
                   [resume_text |-> extracted.text, reader |-> NoReader,
                    errors |-> sessions[s].errors \o extracted.errors])

\* app.py:33: pdfplumber.open(pdf_path) opens the file that has the name
\* now and reads its structure: FileNotFoundError when there is none, a
\* syntax error when the bytes are no PDF's.  The reader keeps the file open.
OpenReader(s) ==
    /\ sessions[s].pc = "extract"
    /\ IF disk_file.name = 0 \/ ~IsPdf(disk_file.files[disk_file.name])
       THEN Extracted(s, <<>>, TRUE)
       ELSE LET bytes == disk_file.files[disk_file.name]
            IN  IF PagesIn(bytes) = <<>> THEN Extracted(s, <<>>, FALSE)
                ELSE Moves(s, "read", [reader |-> [file |-> disk_file.name, bytes |-> bytes,
                                                   pages |-> PagesIn(bytes), page |-> 1,
                                                   text |-> <<>>]])
    /\ UNCHANGED disk_file
    /\ UNCHANGED <<pc, resume_text, job_description, ats, callVars, runVars>>

\* what page.extract_text() may give for the reader's next page.  While the
\* open file holds the bytes it held when the reader was opened, the page's
\* text.  Once another session has emptied or rewritten the file, the reader
\* works on bytes its structure was not read from: it gives what it kept of
\* the page, or the page it finds in the bytes of now, or it raises.
PageOutcomes(reader) ==
    LET now == disk_file.files[reader.file]
        kept == [raises |-> FALSE, text |-> reader.pages[reader.page]]
    IN  IF now = reader.bytes THEN {kept}
        ELSE {kept, [raises |-> TRUE, text |-> <<>>]}
                \cup (IF IsPdf(now) /\ reader.page <= Len(PagesIn(now))
                      THEN {[raises |-> FALSE, text |-> PagesIn(now)[reader.page]]}
                      ELSE {})

\* app.py:34-37: one turn of the loop over the pages; after the last page
\* the function returns
ReadPage(s) ==
    /\ sessions[s].pc = "read"
    /\ LET reader == sessions[s].reader
       IN  \E outcome \in PageOutcomes(reader) :
              IF outcome.raises THEN Extracted(s, <<>>, TRUE)
              ELSE LET text == reader.text \o (IF outcome.text # <<>>
                                               THEN outcome.text \o <<"\n">> ELSE <<>>)
                   IN  IF reader.page = Len(reader.pages) THEN Extracted(s, text, FALSE)
                       ELSE Moves(s, "read",
                                  [reader |-> [reader EXCEPT !.page = @ + 1, !.text = text]])
    /\ UNCHANGED disk_file
    /\ UNCHANGED <<pc, resume_text, job_description, ats, callVars, runVars>>

\* app.py:1113: os.path.exists(temp_file), after the analysis if any
CheckTempFile(s) ==
    /\ sessions[s].pc = "check"
    /\ Moves(s, IF disk_file.name # 0 THEN "remove" ELSE "done", <<>>)
    /\ UNCHANGED disk_file
    /\ UNCHANGED <<pc, resume_text, job_description, ats, callVars, runVars>>

\* app.py:1114, 1116-1117: os.remove(temp_file) takes the name from the
\* file, which those who have it open keep; FileNotFoundError when another
\* session has removed it since the check
RemoveSharedTempFile(s) ==
    /\ sessions[s].pc = "remove"
    /\ IF disk_file.name # 0
       THEN /\ disk_file' = [disk_file EXCEPT !.name = 0]
            /\ Moves(s, "done", <<>>)
       ELSE /\ UNCHANGED disk_file
            /\ Moves(s, "done",
                     [errors |-> Append(sessions[s].errors, "Error processing file")])
    /\ UNCHANGED <<pc, resume_text, job_description, ats, callVars, runVars>>

SessionsNext ==
    \/ \E s \in Sessions : OpenTempFile(s)
    \/ \E s \in Sessions : WriteTempFile(s)
    \/ \E s \in Sessions : OpenReader(s)
    \/ \E s \in Sessions : ReadPage(s)
    \/ \E s \in Sessions : CheckTempFile(s)
    \/ \E s \in Sessions : RemoveSharedTempFile(s)

SpecSessions == SessionsInit /\ [][SessionsNext]_vars

-----------------------------------------------------------------------------
(* Claims about the facet functions *)

\* the reply's text holds no JSON document
HoldsNoJson(text) == \A i \in 1..Len(text) : text[i] \notin DOMAIN JsonDocs

\* the value the reply decodes to once its fences are stripped
Decoded(text) == json_loads(StripFences(text))

RepliesObject == ~gateway.raises /\ Decoded(gateway.text).exc = ""
                    /\ Decoded(gateway.text).val.t = "dict"

RepliesNonObject == ~gateway.raises /\ Decoded(gateway.text).exc = ""
                       /\ Decoded(gateway.text).val.t # "dict"

\* the defaults of the soft-skills schema: the fields the soft-skills
\* prompt asks for (app.py:327-340), each at its default
soft_skills_defaults ==
    PyDict([soft_skills |-> EmptyList,
            writing_style |-> PyDict([formality |-> PyNum("0"), professionalism |-> PyNum("0"),
                                      action_orientation |-> PyNum("0"), clarity |-> PyNum("0")]),
            tone_assessment |-> PyDict([confidence_level |-> EmptyStr,
                                        characteristics |-> EmptyList,
                                        improvements |-> EmptyList])])

SchemaDefaults(name) ==
    CASE name = "extract_resume_data" -> default_data
      [] name = "analyze_soft_skills_and_sentiment" -> soft_skills_defaults
      [] name = "analyze_resume_layout" -> layout_required_fields
      [] name = "generate_candidate_summary" -> summary_required_fields
      [] name = "analyze_ai_enhancements" -> enhancements_required_fields

\* C2: for the soft-skills, layout, candidate-summary and AI-enhancement
\* facets, whenever the gateway call raises or the reply is non-JSON text,
\* the function returns the facet's schema defaults, never a null value.
C2_FailedFacetReturnsSchemaDefaults ==
    ( /\ pc = "facet_done"
      /\ facet \in { "analyze_soft_skills_and_sentiment", "analyze_resume_layout",
                     "generate_candidate_summary", "analyze_ai_enhancements" }
      /\ resume_text # <<>>
      /\ gateway.raises \/ HoldsNoJson(gateway.text) )
    => /\ returned.ret # PyNone
       /\ returned.ret = SchemaDefaults(facet)

\* C3: extract_resume_data returns exactly the extraction defaults whenever
\* JSON decoding fails, the decoded value is not an object, or any other
\* exception occurs; and the reconciliation of lines 156-169 does raise on
\* every decoded value that is not an object, so that no such value is
\* returned part-filled.
C3_ExtractionFallsBackToDefaults ==
    (pc = "facet_done" /\ facet = "extract_resume_data")
    => /\ ( \/ gateway.raises
            \/ Decoded(gateway.text).exc # ""
            \/ RepliesNonObject
            \/ returned.prints # <<>> )
          => returned.ret = default_data
       /\ RepliesNonObject => ReconcileExtraction(StripFences(gateway.text)).exc # ""

\* a reply of null to a call with resume text: the defaults come back
C3_Witness ==
    /\ pc = "facet_done"
    /\ facet = "extract_resume_data"
    /\ resume_text # <<>>
    /\ gateway = [raises |-> FALSE, text |-> <<"null">>]
    /\ returned.ret = default_data

\* v has every top-level key of schema and, where the schema's value is a
\* mapping, every key of that mapping
HasSchemaKeys(v, schema) ==
    /\ v.t = "dict"
    /\ \A k \in DOMAIN schema.o :
          /\ k \in DOMAIN v.o
          /\ schema.o[k].t = "dict"
                => /\ v.o[k].t = "dict"
                   /\ DOMAIN schema.o[k].o \subseteq DOMAIN v.o[k].o

\* C4: for the extraction, layout, candidate-summary and AI-enhancement
\* facets and every JSON object the model replies with, the returned object
\* has every top-level key of the facet's schema and every key of the
\* schema's nested mappings.
C4_ReturnedObjectHasEverySchemaKey ==
    ( /\ pc = "facet_done"
      /\ facet \in { "extract_resume_data", "analyze_resume_layout",
                     "generate_candidate_summary", "analyze_ai_enhancements" }
      /\ resume_text # <<>>
      /\ RepliesObject )
    => HasSchemaKeys(returned.ret, SchemaDefaults(facet))

\* the value reconciliation is to give key k of the extraction schema when
\* the decoded reply is the object d: the model's value where d has the
\* key, the default where it has not; inside personal_info the same, field
\* by field
PreferredValue(d, k) ==
    IF k \notin DOMAIN d.o THEN default_data.o[k]
    ELSE IF k = "personal_info" /\ d.o[k].t = "dict"
         THEN PyDict([f \in DOMAIN default_data.o[k].o \cup DOMAIN d.o[k].o |->
                         IF f \in DOMAIN d.o[k].o THEN d.o[k].o[f] ELSE EmptyStr])
         ELSE d.o[k]

\* C5: when the decoded extraction reply is an object, every schema key
\* present in it keeps the model's value and every absent key (top level,
\* and inside personal_info) is at its default.
C5_ExtractionKeepsModelValues ==
    ( /\ pc = "facet_done"
      /\ facet = "extract_resume_data"
      /\ resume_text # <<>>
      /\ RepliesObject
      /\ LET d == Decoded(gateway.text).val
         IN  "personal_info" \in DOMAIN d.o => d.o["personal_info"].t = "dict" )
    => /\ returned.ret.t = "dict"
       /\ \A k \in DOMAIN default_data.o :
             /\ k \in DOMAIN returned.ret.o
             /\ returned.ret.o[k] = PreferredValue(Decoded(gateway.text).val, k)

\* C8: for every facet and every non-empty resume text, building the prompt
\* succeeds and the gateway is called with a prompt that holds the resume
\* text.
C8_PromptIsBuiltAndSent ==
    (pc = "facet_done" /\ resume_text # <<>>)
    => /\ Len(returned.requests) = 1
       /\ Contains(returned.requests[1], resume_text)

\* the facet's gateway call failed, or its reply did not decode
GatewayFailedOrNoJson ==
    \/ gateway.raises
    \/ facet # "analyze_resume" /\ HoldsNoJson(gateway.text)

\* C16: a call of a model-backed facet function sends at most one request
\* to the gateway; when that request raises it is not sent again and the
\* call returns at once with the facet's failure value.
C16_AtMostOneRequestAndNoRetry ==
    pc = "facet_done" =>
        /\ Len(returned.requests) <= 1
        /\ (gateway.raises /\ returned.requests # <<>>)
              => /\ Len(returned.requests) = 1
                 /\ returned.ret = PyNone

\* the candidate summary's one request raised
C16_Witness ==
    /\ pc = "facet_done"
    /\ facet = "generate_candidate_summary"
    /\ gateway.raises
    /\ Len(returned.requests) = 1
    /\ returned.ret = PyNone

\* C18: whenever a facet falls back because its gateway call failed or its
\* reply did not decode, an error is shown to the user or the returned
\* value tells the caller so (it is None, which no success returns).
C18_FallbackIsSurfaced ==
    (pc = "facet_done" /\ resume_text # <<>> /\ GatewayFailedOrNoJson)
    => \/ returned.errors # <<>>
       \/ returned.ret = PyNone

\* C19: whatever the gateway does (a reply of any text, an empty reply, a
\* raised error) and whatever the reply decodes to (object, list, scalar,
\* null), each facet function, and calculate_detailed_scores on whatever
\* resume_data it is given, returns to its caller: no exception leaves it.
C19_NoExceptionEscapes ==
    /\ pc = "facet_done" => returned.escaped = ""
    /\ pc = "detailed_done" => detailed_scores.escaped = ""

\* a reply that decodes to a number: the required-fields loop raises
\* TypeError, which the outer except clause turns into None and an error
C19_Witness ==
    /\ pc = "facet_done"
    /\ facet = "analyze_ai_enhancements"
    /\ RepliesNonObject
    /\ Decoded(gateway.text).val.t = "num"
    /\ returned.ret = PyNone
    /\ returned.errors = <<"Error generating AI enhancements analysis">>
    /\ returned.escaped = ""

\* the heading that opens the job-description block of a facet's prompt
JdHeading(name) ==
    IF name = "analyze_resume" THEN "Job Description Comparison:" ELSE "Job Description:"

\* the symbols of a facet's fixed instruction block
InstructionSymbols(name) ==
    CASE name = "analyze_resume" -> Range(base_prompt_head) \ {"{", "resume_text", "}"}
      [] name = "generate_candidate_summary" -> Range(summary_prompt)
      [] name = "analyze_ai_enhancements" -> Range(enhancements_prompt)

\* the request holds heading at some place and text somewhere after it
HoldsBlock(request, heading, text) ==
    \E i \in 1..Len(request) :
        /\ request[i] = heading
        /\ Contains(SubSeq(request, i + 1, Len(request)), text)

\* C20: the prompt of the free-text evaluation, the candidate summary and
\* the AI enhancements holds the job-description block exactly when a
\* non-empty job description was given; without one it holds the fixed
\* instruction block and the resume text and nothing else.
C20_JdBlockIffJobDescription ==
    ( /\ pc = "facet_done"
      /\ facet \in {"analyze_resume", "generate_candidate_summary", "analyze_ai_enhancements"}
      /\ returned.requests # <<>> )
    => LET request == returned.requests[1]
       IN  /\ job_description # <<>>
                 => HoldsBlock(request, JdHeading(facet), job_description)
           /\ job_description = <<>>
                 => /\ JdHeading(facet) \notin Range(request)
                    /\ InstructionSymbols(facet) \subseteq Range(request)
                    /\ Contains(request, resume_text)
                    /\ Range(request) \subseteq
                          InstructionSymbols(facet) \cup Range(ResumeSection(resume_text))

\* the free-text evaluation asked for with a job description
C20_Witness ==
    /\ pc = "facet_done"
    /\ facet = "analyze_resume"
    /\ job_description = <<"j", "d">>
    /\ returned.requests # <<>>
    /\ HoldsBlock(returned.requests[1], "Job Description Comparison:", job_description)

-----------------------------------------------------------------------------
(* Claims about a run of the script *)

\* the facets that ask the gateway for a schema-bound JSON reply in a run
LaterFacets ==
    {"generate_candidate_summary", "analyze_ai_enhancements", "analyze_resume_layout"}

\* the run went through the analysis and ended without the display code raising
AnalysisEnded ==
    /\ pc = "done"
    /\ "analyze_resume" \in Range(calls)
    /\ "Error processing resume" \notin Range(errors)

\* C1: in a run with resume text that went through the analysis, no facet is
\* left out because another facet failed: whatever analyze_resume and the
\* other facets returned, the candidate summary, the AI enhancements, the
\* layout critique and the keyword score have all been called for.
C1_FailedFacetLeavesOthersRunning ==
    AnalysisEnded =>
        LaterFacets \cup {"calculate_ats_score"} \subseteq Range(calls)

\* C6: a run with resume text in which every facet succeeded has executed
\* all eight steps, the soft-skills analysis and the detailed weighted
\* scoring among them.
C6_AllEightStepsExecuted ==
    (/\ AnalysisEnded
     /\ errors = <<>>
     /\ Truthy(analysis) /\ Truthy(candidate_summary)
     /\ Truthy(ai_enhancements) /\ Truthy(layout_analysis))
    => {"extract_resume_data", "analyze_resume", "calculate_ats_score",
        "analyze_soft_skills_and_sentiment", "analyze_resume_layout",
        "generate_candidate_summary", "analyze_ai_enhancements",
        "calculate_detailed_scores"} \subseteq Range(calls)

\* the upload yields no text: the reader raises, or every page holds
\* nothing but whitespace
NoExtractableText ==
    \/ pdf.raises
    \/ \A i \in 1..Len(pdf.pages) : Range(pdf.pages[i]) \subseteq Whitespace

\* C7: once the upload has been read and yielded no extractable text, the
\* run is stopped with an error shown, and no facet function has been
\* called and no request has reached the gateway.
C7_NoTextStopsTheRun ==
    (pc # "start" /\ NoExtractableText)
    => /\ pc = "stopped"
       /\ errors # <<>>
       /\ calls = <<>>
       /\ requests = <<>>

C7_Witness ==
    /\ pc = "stopped"
    /\ button
    /\ ~pdf.raises
    /\ \E i \in 1..Len(pdf.pages) : pdf.pages[i] # <<>>

\* the calls of the analysis block that send a request to the gateway, in
\* the order of the script: app.py:697, 722, 801, 893, 1033
GatewayCallSites ==
    <<"analyze_resume", "generate_candidate_summary", "analyze_ai_enhancements",
      "analyze_resume_layout", "analyze_resume_layout">>

\* the most gateway requests one run sends
RequestsPerRun == Len(GatewayCallSites)

\* the script run is over: it reached its last statement or st.stop()
RunFinished == pc \in {"done", "stopped"}

\* C21: every run that is started eventually finishes, with results, with
\* per-facet fallbacks or with the extraction error, and it never sends more
\* than a fixed number of gateway requests.
C21_RunFinishesWithinBoundedRequests ==
    /\ [](Len(requests) <= RequestsPerRun)
    /\ ((pc = "start") ~> RunFinished)

C21_Witness ==
    /\ pc = "done"
    /\ button
    /\ Len(requests) = RequestsPerRun
    /\ errors # <<>>

\* C22: the course-recommendation step leaves the extracted resume data as
\* it was: after the step resume_data, and with it resume_data['skills'], is
\* what the extraction facet returned.
C22_CoursesStepLeavesResumeData ==
    [][pc = "recommend_courses" => resume_data' = resume_data]_vars

\* the number of requests a facet has sent to the gateway in the run
RequestsOf(name) == Cardinality({i \in 1..Len(requests) : requests[i] = name})

\* C23: in one run every facet sends at most one request to the gateway; the
\* layout critique in particular is requested once.
C23_EachFacetRequestedAtMostOnce ==
    \A name \in Range(requests) : RequestsOf(name) <= 1

\* C24: when a script run with an upload is over, whether it went through,
\* was halted by the extraction error or had its analysis raise, the
\* temporary file uploaded_resume.pdf does not exist.
C24_TempFileRemovedAtEndOfRun ==
    RunFinished => ~temp_file

-----------------------------------------------------------------------------
(* Claims about sessions running at once *)

\* the text of a session's own upload
OwnText(s) == strip(JoinPages(sessions[s].upload.pages))

\* C17: however the sessions interleave, a session that has extracted its
\* resume text has the text of its own upload, and its extraction has not
\* failed because of another session's write or removal of
\* uploaded_resume.pdf.
C17_SessionExtractsItsOwnUpload ==
    pc = "sessions" =>
        \A s \in Sessions :
            sessions[s].pc \in {"check", "remove", "done", "stopped"}
            => /\ sessions[s].resume_text = OwnText(s)
               /\ "Error extracting text from PDF" \notin Range(sessions[s].errors)

-----------------------------------------------------------------------------
(* Claims about the fence stripping *)

\* the text after the first occurrence of sep in s (sep occurs in s)
After(s, sep) == SubSeq(s, Find(s, sep) + Len(sep), Len(s))

\* the text before the first occurrence of sep in s (sep occurs in s)
Before(s, sep) == SubSeq(s, 1, Find(s, sep) - 1)

\* C9: for every raw reply, when it contains the triple-backtick-json marker the
\* candidate is the trimmed text between the first such marker and the next
\* triple-backtick marker; otherwise, when it contains a triple-backtick marker, the trimmed text
\* between the first and the second occurrence; otherwise the trimmed reply.
\* Where no closing marker follows, the claim names no text and asks nothing.
C9_CandidateIsTextBetweenMarkers ==
    pc = "extractor_done" =>
        IF Contains(raw_reply, FenceJson)
        THEN Contains(After(raw_reply, FenceJson), Fence)
                => response_text = strip(Before(After(raw_reply, FenceJson), Fence))
        ELSE IF Contains(raw_reply, Fence)
             THEN Contains(After(raw_reply, Fence), Fence)
                     => response_text = strip(Before(After(raw_reply, Fence), Fence))
             ELSE response_text = strip(raw_reply)

\* C25: for every raw reply the cleaned text holds no triple-backtick
\* marker and neither starts nor ends with whitespace, and cleaning it again
\* returns it unchanged.
C25_CleaningIsIdempotent ==
    pc = "extractor_done" =>
        /\ ~Contains(response_text, Fence)
        /\ response_text = <<>> \/ (/\ Head(response_text) \notin Whitespace
                                    /\ response_text[Len(response_text)] \notin Whitespace)
        /\ StripFences(response_text) = response_text

\* a reply with whitespace around a fenced payload and a marker after it
C25_Witness ==
    /\ pc = "extractor_done"
    /\ Contains(raw_reply, FenceJson)
    /\ Contains(After(raw_reply, FenceJson), Fence)
    /\ response_text # <<>>
    /\ response_text # Before(After(raw_reply, FenceJson), Fence)
    /\ Backtick \in Range(response_text)

-----------------------------------------------------------------------------
(* Claims about the keyword scorer *)

\* the lowercased whitespace-separated words of a text longer than 2
\* characters, stated by position: a run of non-whitespace characters that
\* whitespace or the text's end bounds on both sides
TokensOf(text) ==
    { lower(SubSeq(text, i, j)) :
        <<i, j>> \in { p \in (1..Len(text)) \X (1..Len(text)) :
                        /\ p[1] <= p[2]
                        /\ \A k \in p[1]..p[2] : text[k] \notin Whitespace
                        /\ p[1] = 1 \/ text[p[1] - 1] \in Whitespace
                        /\ p[2] = Len(text) \/ text[p[2] + 1] \in Whitespace
                        /\ p[2] - p[1] + 1 > 2 } }

\* p hundredths is count / total * 100 rounded to 2 decimals
IsRoundedPercentage(p, count, total) ==
    LET diff == p * total - 10000 * count
    IN  /\ 2 * diff <= total
        /\ 2 * diff >= -total

\* C10: calculate_ats_score returns matchedWords = resumeTokens \cap jdTokens
\* and percentage = |resumeTokens \cap jdTokens| / |jdTokens| * 100 rounded to
\* 2 decimals (the quotient exists where jdTokens is not empty).
C10_ScoreIsOverlapOfTokens ==
    pc = "scorer_done" =>
        LET resumeTokens == TokensOf(resume_text)
            jdTokens == TokensOf(job_description)
        IN  /\ ats.matched_words = resumeTokens \cap jdTokens
            /\ jdTokens # {} =>
                  IsRoundedPercentage(ats.percentage,
                                      Cardinality(resumeTokens \cap jdTokens),
                                      Cardinality(jdTokens))

\* a job description of three tokens, two of them in the resume: 66.67
C10_Witness ==
    /\ pc = "scorer_done"
    /\ Cardinality(TokensOf(job_description)) = 3
    /\ Cardinality(ats.matched_words) = 2
    /\ ats.percentage = 6667

\* the words of the documented example
python == <<"p", "y", "t", "h", "o", "n">>
aws == <<"a", "w", "s">>
kubernetes == <<"k", "u", "b", "e", "r", "n", "e", "t", "e", "s">>
looking == <<"l", "o", "o", "k", "i", "n", "g">>
engineer == <<"e", "n", "g", "i", "n", "e", "e", "r">>
forToken == <<"f", "o", "r">>

ScenarioScored ==
    /\ pc = "scorer_done"
    /\ resume_text = ScenarioResume
    /\ job_description = ScenarioJd

\* C11 as documented: on the example resume and job description the
\* qualifying job-description tokens are the 5 words python, aws,
\* kubernetes, looking and engineer, the matched set is {python, aws} and
\* the percentage is 40.0.
C11_ScenarioScores40 ==
    ScenarioScored =>
        /\ TokensOf(job_description) = {python, aws, kubernetes, looking, engineer}
        /\ ats.matched_words = {python, aws}
        /\ ats.percentage = 4000

\* C11 as the code has it: "for" has 3 characters and qualifies, so the
\* job description has 6 qualifying tokens, the matched set is
\* {python, aws} and the percentage is 2/6*100 = 33.33.
C11_ScenarioScores3333 ==
    ScenarioScored =>
        /\ TokensOf(job_description) = {python, aws, kubernetes, looking, engineer, forToken}
        /\ ats.matched_words = {python, aws}
        /\ ats.percentage = 3333

C11_Witness ==
    /\ ScenarioScored
    /\ Cardinality(ats.matched_words) = 2

\* C12: the percentage calculate_ats_score returns lies in [0, 100], and it
\* is 0 with an empty matched set whenever the job description is empty or
\* holds no word longer than 2 characters (no division takes place then).
C12_ScoreInRangeAndZeroWithoutJdTokens ==
    pc = "scorer_done" =>
        /\ ats.percentage >= 0
        /\ ats.percentage <= 10000
        /\ TokensOf(job_description) = {} =>
              /\ ats.percentage = 0
              /\ ats.matched_words = {}

\* a job description that is not empty and holds only short words, scored
\* against a resume that has tokens
C12_Witness ==
    /\ pc = "scorer_done"
    /\ job_description # <<>>
    /\ \E i \in 1..Len(job_description) : job_description[i] \notin Whitespace
    /\ TokensOf(job_description) = {}
    /\ TokensOf(resume_text) # {}
    /\ ats.percentage = 0

\* the job description is built from a strict subset of the resume's tokens
JdFromStrictSubset ==
    /\ TokensOf(job_description) \subseteq TokensOf(resume_text)
    /\ TokensOf(job_description) # TokensOf(resume_text)

\* C13: a resume scored against itself scores at least what it scores
\* against a job description built from a strict subset of its tokens.
C13_SelfScoreIsAtLeastSubsetScore ==
    (pc = "scorer_done" /\ JdFromStrictSubset)
    => calculate_ats_score(resume_text, resume_text).percentage >= ats.percentage

\* a resume of two tokens scored against a job description of one of them
C13_Witness ==
    /\ pc = "scorer_done"
    /\ JdFromStrictSubset
    /\ Cardinality(TokensOf(resume_text)) = 2
    /\ Cardinality(TokensOf(job_description)) = 1
    /\ ats.percentage = 10000

-----------------------------------------------------------------------------
(* Claims about the detailed scoring *)

\* resume_data[key], or the empty list the schema gives a field left out
FieldOf(rd, key) == IF key \in DOMAIN rd.o THEN rd.o[key] ELSE EmptyList

\* resume_data as the schema has it: an object whose skills are a list of
\* strings and whose experience is a list
SchemaShaped(rd) ==
    /\ rd.t = "dict"
    /\ FieldOf(rd, "skills").t = "list"
    /\ \A i \in 1..Len(FieldOf(rd, "skills").l) : FieldOf(rd, "skills").l[i].t = "str"
    /\ FieldOf(rd, "experience").t = "list"

\* the number of experience entries listed
ExperienceEntries == Len(FieldOf(resume_data, "experience").l)

\* C14: for resume_data with n listed experience entries,
\* calculate_detailed_scores returns experience_score = min(100, 20 * n):
\* 60 for 3 entries, 100 for 5 entries or more.
C14_ExperienceScoreIs20PerEntryCapped ==
    (pc = "detailed_done" /\ SchemaShaped(resume_data))
    => /\ ~detailed_scores.none
       /\ detailed_scores.experience_score
             = (IF ExperienceEntries >= 5 THEN 10000 ELSE 2000 * ExperienceEntries)
       /\ ExperienceEntries = 3 => detailed_scores.experience_score = 6000

\* three entries scored 60
C14_Witness ==
    /\ pc = "detailed_done"
    /\ SchemaShaped(resume_data)
    /\ ExperienceEntries = 3
    /\ detailed_scores.experience_score = 6000

\* the lowercased skills of resume_data
ExtractedSkills ==
    {lower(item.s) : item \in ItemsOf(FieldOf(resume_data, "skills"))}

\* p hundredths is num / den hundredths rounded to a whole number
IsRounded(p, num, den) ==
    /\ 2 * (p * den - num) <= den
    /\ 2 * (p * den - num) >= -den

\* C15: where calculate_detailed_scores succeeds, total_score is
\* 0.30 * ats_score + 0.40 * skills_score + 0.30 * experience_score rounded
\* to 2 decimals, skills_score is |jdTokens \cap skills| / |jdTokens| * 100
\* (0 where jdTokens is empty), and the total and every sub-score lie in
\* [0, 100].
C15_TotalIsWeightedSum ==
    (pc = "detailed_done" /\ ~detailed_scores.none)
    => LET jdTokens == TokensOf(job_description)
           n == Cardinality(jdTokens)
           m == Cardinality(jdTokens \cap TokensOf(resume_text))
           k == Cardinality(jdTokens \cap ExtractedSkills)
           e == detailed_scores.experience_score
       IN  /\ IF n = 0
              THEN /\ detailed_scores.skills_score = 0
                   /\ detailed_scores.ats_score = 0
                   /\ IsRounded(detailed_scores.total_score, 30 * e, 100)
              ELSE /\ IsRoundedPercentage(detailed_scores.skills_score, k, n)
                   /\ IsRoundedPercentage(detailed_scores.ats_score, m, n)
                   /\ IsRounded(detailed_scores.total_score,
                                30 * 10000 * m + 40 * 10000 * k + 30 * e * n, 100 * n)
           /\ \A score \in {detailed_scores.total_score, detailed_scores.ats_score,
                            detailed_scores.skills_score, detailed_scores.experience_score} :
                 score >= 0 /\ score <= 10000

\* half the job description's words in the resume, half among the skills,
\* three experience entries: 0.3 * 50 + 0.4 * 50 + 0.3 * 60 = 53
C15_Witness ==
    /\ pc = "detailed_done"
    /\ ~detailed_scores.none
    /\ detailed_scores.ats_score = 5000
    /\ detailed_scores.skills_score = 5000
    /\ detailed_scores.experience_score = 6000
    /\ detailed_scores.total_score = 5300

-----------------------------------------------------------------------------
(* Claims about the two local scorers *)

\* C26: for every resume text and job description, either of them empty or
\* not, the ats_score in the result of calculate_detailed_scores is the
\* percentage calculate_ats_score returns for the same two texts.
C26_ScorersAgree ==
    (pc = "scorers_done" /\ ~detailed_scores.none)
    => detailed_scores.ats_score = ats.percentage

\* the two were called on texts that share one of the two job-description words
C26_Witness ==
    /\ pc = "scorers_done"
    /\ ~detailed_scores.none
    /\ ats.percentage = 5000
    /\ Cardinality(WordsLongerThan2(resume_text)) = 2

-----------------------------------------------------------------------------
(* Claims about the keyword sets *)

\* the two sets are disjoint and together are the set of tokens
Partition(matched, missing, tokens) ==
    /\ matched \cap missing = {}
    /\ matched \cup missing = tokens

\* C27: in the result of calculate_detailed_scores matched_skills and
\* missing_skills, and in the result of analyze_job_matching matched_keywords
\* and missing_keywords, are disjoint and their union is the set of the job
\* description's qualifying tokens.
C27_MatchedAndMissingPartitionJdTokens ==
    /\ (pc = "detailed_done" /\ ~detailed_scores.none)
       => Partition(detailed_scores.matched_skills, detailed_scores.missing_skills,
                    TokensOf(job_description))
    /\ (pc = "job_matching_done" /\ ~job_matching.none)
       => Partition(job_matching.matched_keywords, job_matching.missing_keywords,
                    TokensOf(job_description))

\* a job description with one token matched and one missing
C27_Witness ==
    /\ pc = "job_matching_done"
    /\ ~job_matching.none
    /\ Cardinality(job_matching.matched_keywords) = 1
    /\ Cardinality(job_matching.missing_keywords) = 1
    /\ job_matching.missing_keywords \cap WordsLongerThan2(resume_text) = {}
    /\ WordsLongerThan2(resume_text) \ TokensOf(job_description) # {}

====
